---- MODULE Spec2Model ----
(***************************************************************************)
(* Model of the monitoring dashboard: the WebSocket dashboard server       *)
(* (DashboardServer) and the terminal monitor (ComprehensiveMonitor).      *)
(* Both subscribe to the same Redis pub/sub channels and keep an in-memory *)
(* snapshot; the dashboard server also fans events out to WebSocket        *)
(* clients and replays its cache to a client that connects.                *)
(***************************************************************************)
EXTENDS Integers, Sequences, FiniteSets, TLC

\* ------------------------------------------------------------------ bounds
MaxMsgs == 3          \* messages published on the bus in one behaviour
MaxSocketEvents == 3  \* WebSocket client events in one behaviour
MaxTicks == 2         \* degraded-mode timer ticks in one behaviour

\* ------------------------------------------------------- finite input sets
Nodes   == {"10.0.0.1", "10.0.0.2"}
Markets == {"E1", "E2"}
Clients == {"ws1", "ws2"}

\* ---------------------------------------------------------------- JS Map
\* A JS Map is a sequence of [k, v] entries in insertion order.
EmptyMap == << >>

MapHas(m, key) == \E i \in 1..Len(m) : m[i].k = key

MapIdx(m, key) == CHOOSE i \in 1..Len(m) : m[i].k = key

MapGet(m, key) == m[MapIdx(m, key)].v

\* Faulty variant of Map.prototype.set: an existing entry is kept
MapSetIfAbsent(m, key, val) ==
    IF MapHas(m, key) THEN m ELSE Append(m, [k |-> key, v |-> val])

\* Map.prototype.set: overwrite in place, or append a new entry
MapSet(m, key, val) ==
    IF MapHas(m, key)
    THEN [m EXCEPT ![MapIdx(m, key)] = [k |-> key, v |-> val]]
    ELSE Append(m, [k |-> key, v |-> val])

\* Map.prototype.delete / Set.prototype.delete: no-op when the key is absent
MapDelete(m, key) == SelectSeq(m, LAMBDA e : e.k # key)

MapKeys(m) == {m[i].k : i \in 1..Len(m)}

\* A JS Set (this.clients) is a sequence of members in insertion order.
SetAdd(s, x) == IF \E i \in 1..Len(s) : s[i] = x THEN s ELSE Append(s, x)

SetDelete(s, x) == SelectSeq(s, LAMBDA e : e # x)

SetMembers(s) == {s[i] : i \in 1..Len(s)}

\* ------------------------------------------------------------- JS values
\* A parsed JSON value: null, or an object (a record of its properties).
EmptyObj == << >>

Null == [isNull |-> TRUE, obj |-> EmptyObj]

Obj(o) == [isNull |-> FALSE, obj |-> o]

\* Property read x.p of a non-null value: <<value>>, or << >> for undefined.
Prop(val, p) == IF p \in DOMAIN val.obj THEN <<val.obj[p]>> ELSE << >>

\* Object spread {...val, lastUpdate: t}; spreading null adds nothing.
SpreadWithLastUpdate(val, t) == ("lastUpdate" :> t) @@ val.obj

\* A JS number that can have a fractional part (cpuUsage, memoryUsage,
\* loadAverage) is kept in hundredths: 45.2 is Hundredths(45, 20).
Hundredths(whole, frac) == whole * 100 + frac

\* new Date().toISOString()
toISOString(t) == [iso |-> t]

\* --------------------------------------------------------- bus payloads
Level(p, q, c) == [price |-> p, quantity |-> q, count |-> c]

SideYes == [marketId |-> "YES", bids |-> <<Level(45, 1000, 3)>>,
            asks |-> <<Level(47, 800, 2)>>, bestBid |-> 45, bestAsk |-> 47,
            totalOrders |-> 5]

SideNo == [marketId |-> "NO", bids |-> <<Level(52, 900, 2)>>,
           asks |-> <<Level(54, 700, 2)>>, bestBid |-> 52, bestAsk |-> 54,
           totalOrders |-> 4]

\* A Side whose levels are not listed from the highest price down
SideDeep == [marketId |-> "YES",
             bids |-> <<Level(44, 1500, 5), Level(45, 1000, 3)>>,
             asks |-> <<Level(47, 800, 2), Level(48, 1200, 4)>>,
             bestBid |-> 45, bestAsk |-> 47, totalOrders |-> 14]

OrderbookObj(e, n, a) ==
    [type |-> "orderbook_update", eventId |-> e, nodeId |-> n,
     marketA |-> a, marketB |-> SideNo]

\* The texts published on the bus and what JSON.parse makes of each; any
\* text outside the table is not JSON and makes JSON.parse throw.
JSONtable ==
    ("null" :> Null)
 @@ ("{\"cpuUsage\":50,\"isHealthy\":true}"
        :> Obj([cpuUsage |-> Hundredths(50, 0), isHealthy |-> TRUE]))
 @@ ("{\"cpuUsage\":90,\"isHealthy\":false}"
        :> Obj([cpuUsage |-> Hundredths(90, 0), isHealthy |-> FALSE]))
 @@ ("{\"status\":\"OPEN\"}"    :> Obj([status |-> "OPEN"]))
 @@ ("{\"status\":\"CLOSED\"}"  :> Obj([status |-> "CLOSED"]))
 @@ ("{\"status\":\"CLEARED\"}" :> Obj([status |-> "CLEARED"]))
 @@ ("{\"totalMarkets\":0}" :> Obj([totalMarkets |-> 0]))
 @@ ("{\"totalMarkets\":7}" :> Obj([totalMarkets |-> 7]))
 @@ ("{\"type\":\"orderbook_update\",\"eventId\":\"E1\",\"nodeId\":\"10.0.0.1\",A,B}"
        :> Obj(OrderbookObj("E1", "10.0.0.1", SideYes)))
 @@ ("{\"type\":\"orderbook_update\",\"eventId\":\"E1\",\"nodeId\":\"10.0.0.2\",A,B}"
        :> Obj(OrderbookObj("E1", "10.0.0.2", SideYes)))
 @@ ("{\"type\":\"orderbook_update\",\"eventId\":\"E2\",\"nodeId\":\"10.0.0.1\",A,B}"
        :> Obj(OrderbookObj("E2", "10.0.0.1", SideYes)))
 @@ ("{\"type\":\"orderbook_update\",\"eventId\":\"E2\",\"nodeId\":\"10.0.0.2\",Deep,B}"
        :> Obj(OrderbookObj("E2", "10.0.0.2", SideDeep)))
 @@ ("{\"eventId\":\"E1\",\"nodeId\":\"10.0.0.1\",A,B}"
        :> Obj([eventId |-> "E1", nodeId |-> "10.0.0.1",
                marketA |-> SideYes, marketB |-> SideNo]))

Garbage == "{not json"

JSONparse(text) ==
    IF text \in DOMAIN JSONtable
    THEN [threw |-> FALSE, val |-> JSONtable[text]]
    ELSE [threw |-> TRUE, val |-> Null]

\* The feed: on each of the four topics a text that is not JSON and
\* well-formed payloads; on market_status also the JSON text null
Metrics(n, text) == [channel |-> <<"metrics", n>>, message |-> text]

Orderbooks(text) == [channel |-> <<"orderbooks">>, message |-> text]

MarketStatus(e, text) == [channel |-> <<"market_status", e>>, message |-> text]

MarketDiscovery(text) == [channel |-> <<"market_discovery">>, message |-> text]

\* The channels in the order setupRedisSubscriptions subscribes to them,
\* by the first segment of their name
SubscriptionOrder ==
    <<"metrics", "orderbooks", "market_status", "market_discovery">>

\* The subscriptions in place after the first n subscribe calls
SubscribedAfter(n) == {SubscriptionOrder[i] : i \in 1..n}

\* A published message: its channel, as the list of its ':'-separated
\* segments (what channel.split(':') returns), and its text.
BusMessages ==
    {Metrics("10.0.0.1", Garbage),
     Metrics("10.0.0.1", "{\"cpuUsage\":50,\"isHealthy\":true}"),
     Metrics("10.0.0.1", "{\"cpuUsage\":90,\"isHealthy\":false}"),
     Metrics("10.0.0.2", "{\"cpuUsage\":50,\"isHealthy\":true}"),
     Orderbooks(Garbage),
     Orderbooks("{\"type\":\"orderbook_update\",\"eventId\":\"E1\",\"nodeId\":\"10.0.0.1\",A,B}"),
     Orderbooks("{\"type\":\"orderbook_update\",\"eventId\":\"E1\",\"nodeId\":\"10.0.0.2\",A,B}"),
     Orderbooks("{\"type\":\"orderbook_update\",\"eventId\":\"E2\",\"nodeId\":\"10.0.0.1\",A,B}"),
     Orderbooks("{\"eventId\":\"E1\",\"nodeId\":\"10.0.0.1\",A,B}"),
     MarketStatus("E1", Garbage), MarketStatus("E1", "null"),
     MarketStatus("E1", "{\"status\":\"OPEN\"}"),
     MarketStatus("E1", "{\"status\":\"CLOSED\"}"),
     MarketStatus("E1", "{\"status\":\"CLEARED\"}"),
     MarketDiscovery(Garbage),
     MarketDiscovery("{\"totalMarkets\":7}")}

\* The part of the feed published while WebSocket clients come and go
FanoutFeed ==
    {Metrics("10.0.0.1", Garbage),
     Metrics("10.0.0.1", "{\"cpuUsage\":50,\"isHealthy\":true}"),
     Orderbooks("{\"type\":\"orderbook_update\",\"eventId\":\"E1\",\"nodeId\":\"10.0.0.1\",A,B}"),
     Orderbooks("{\"type\":\"orderbook_update\",\"eventId\":\"E1\",\"nodeId\":\"10.0.0.2\",A,B}"),
     MarketStatus("E1", "{\"status\":\"CLEARED\"}"),
     MarketDiscovery("{\"totalMarkets\":7}")}

\* The part of the feed that fills the cache a connecting client is replayed
ReplayFeed ==
    {Metrics("10.0.0.1", "{\"cpuUsage\":50,\"isHealthy\":true}"),
     Orderbooks("{\"type\":\"orderbook_update\",\"eventId\":\"E1\",\"nodeId\":\"10.0.0.1\",A,B}"),
     Orderbooks("{\"type\":\"orderbook_update\",\"eventId\":\"E1\",\"nodeId\":\"10.0.0.2\",A,B}"),
     Orderbooks("{\"type\":\"orderbook_update\",\"eventId\":\"E2\",\"nodeId\":\"10.0.0.1\",A,B}"),
     MarketDiscovery("{\"totalMarkets\":7}")}

\* The part of the feed whose records the terminal display sorts
DisplayFeed ==
    {Metrics("10.0.0.2", "{\"cpuUsage\":50,\"isHealthy\":true}"),
     Metrics("10.0.0.1", "{\"cpuUsage\":90,\"isHealthy\":false}"),
     Orderbooks("{\"type\":\"orderbook_update\",\"eventId\":\"E2\",\"nodeId\":\"10.0.0.2\",Deep,B}")}

\* The discovery messages of the feed
DiscoveryFeed ==
    {MarketDiscovery("{\"totalMarkets\":0}"),
     MarketDiscovery("{\"totalMarkets\":7}")}

\* The part of the feed published around a shutdown
LifeFeed == {Metrics("10.0.0.1", "{\"cpuUsage\":50,\"isHealthy\":true}")}

NoMessage == [channel |-> << >>, message |-> ""]

\* ------------------------------------------------------------------ state
VARIABLES
    now,          \* the clock read by new Date(); it advances with each publication
    busMsg,       \* the message Redis is delivering, or NoMessage
    pending,      \* subscribers that have not yet been handed busMsg
    published,    \* number of messages published so far
    phase,        \* dashboard server: "constructed"; "live" or "demo" once
                  \* started; "quittingSubscriber", "quittingClient" and
                  \* "exited" in stop()
    server,       \* the DashboardServer instance and what it has output
    readyState,   \* ws.readyState of each client socket
    sendThrows,   \* client sockets whose send() raises (broken channel)
    socketEvents, \* number of client socket events so far
    monitor,      \* the ComprehensiveMonitor instance
    last,         \* the dashboard server's latest reaction step
    monLast,      \* the monitor's latest reaction step
    shadow,       \* the dashboard server fed only the texts that are JSON
    heard,        \* per process and node, the latest health text that was JSON
    ticks         \* number of times the degraded-mode timer has fired

vars == <<now, busMsg, pending, published, phase, server, readyState,
          sendThrows, socketEvents, monitor, last, monLast, shadow, heard,
          ticks>>

\* --------------------------------------------------- DashboardServer core
\* Outbound events, as JSON.stringify puts them on the wire: a Date becomes
\* its ISO string and a property whose value is undefined is left out.
HealthUpdateEvent(nodeId, health, t) ==
    [type |-> "health_update", nodeId |-> nodeId, health |-> health,
     timestamp |-> toISOString(t)]

OrderbookUpdateEvent(eventId, nodeId, marketA, marketB, t) ==
    [type |-> "orderbook_update", eventId |-> eventId, nodeId |-> nodeId,
     marketA |-> marketA, marketB |-> marketB, timestamp |-> toISOString(t)]

MarketRemovedEvent(eventId, status, t) ==
    [type |-> "market_removed", eventId |-> eventId, status |-> status,
     timestamp |-> toISOString(t)]

MarketDiscoveryEvent(totalMarkets, t) ==
    IF totalMarkets = << >>
    THEN [type |-> "market_discovery", timestamp |-> toISOString(t)]
    ELSE [type |-> "market_discovery", totalMarkets |-> totalMarkets[1],
          timestamp |-> toISOString(t)]

\* A cached health record as JSON.stringify writes it
\* The number NaN, which arithmetic on a missing field produces: a value
\* apart from every number the model uses
NaN == -1000000

\* x + d in JS arithmetic
Plus(x, d) == IF x = NaN THEN NaN ELSE x + d

StringifyCached(rec) ==
    Obj([f \in DOMAIN rec |->
            IF f = "lastUpdate" THEN toISOString(rec[f])
            ELSE IF f \in {"cpuUsage", "memoryUsage"} /\ rec[f] = NaN
            THEN Null
            ELSE rec[f]])

\* One entry of a client's wire log: the event, the path that sent it and
\* the serial number of the event in the order the server produced events.
Sent(seq, via, event) == [seq |-> seq, via |-> via, event |-> event]

\* Faulty variant of the forEach body: the catch clause logs the error but
\* leaves the client in this.clients
RECURSIVE forEachClientKeep(_, _, _, _, _)
forEachClientKeep(S, todo, data, rs, st) ==
    IF todo = << >> THEN S
    ELSE LET client == Head(todo) IN
         IF rs[client] = "OPEN"
         THEN IF client \in st
              THEN forEachClientKeep(
                     [S EXCEPT !.console = Append(@, "Error sending message to client")],
                     Tail(todo), data, rs, st)
              ELSE forEachClientKeep(
                     [S EXCEPT !.sent[client] =
                                  Append(@, Sent(S.produced + 1, "broadcast", data))],
                     Tail(todo), data, rs, st)
         ELSE forEachClientKeep(S, Tail(todo), data, rs, st)

\* Faulty variant of the forEach body: the message is put at the head of the
\* client's outbound log instead of its tail
RECURSIVE forEachClientUnshift(_, _, _, _, _)
forEachClientUnshift(S, todo, data, rs, st) ==
    IF todo = << >> THEN S
    ELSE LET client == Head(todo) IN
         IF rs[client] = "OPEN"
         THEN IF client \in st
              THEN forEachClientUnshift(
                     [S EXCEPT !.console = Append(@, "Error sending message to client"),
                               !.clients = SetDelete(@, client)],
                     Tail(todo), data, rs, st)
              ELSE forEachClientUnshift(
                     [S EXCEPT !.sent[client] =
                                  <<Sent(S.produced + 1, "broadcast", data)>> \o @],
                     Tail(todo), data, rs, st)
         ELSE forEachClientUnshift(S, Tail(todo), data, rs, st)

\* The body of broadcast's forEach for the clients still to visit
RECURSIVE forEachClient(_, _, _, _, _)
forEachClient(S, todo, data, rs, st) ==
    IF todo = << >> THEN S
    ELSE LET client == Head(todo) IN
         IF rs[client] = "OPEN"
         THEN IF client \in st
              THEN forEachClient(
                     [S EXCEPT !.console = Append(@, "Error sending message to client"),
                               !.clients = SetDelete(@, client)],
                     Tail(todo), data, rs, st)
              ELSE forEachClient(
                     [S EXCEPT !.sent[client] =
                                  Append(@, Sent(S.produced + 1, "broadcast", data))],
                     Tail(todo), data, rs, st)
         ELSE forEachClient(S, Tail(todo), data, rs, st)

\* Faulty variant of broadcast: send is called without try/catch, so the
\* first send that raises ends the forEach and the exception leaves the call
broadcastNoCatch(S, data, rs, st) ==
    LET bad == {i \in 1..Len(S.clients) :
                   rs[S.clients[i]] = "OPEN" /\ S.clients[i] \in st}
    IN  IF bad = {}
        THEN [forEachClient(S, S.clients, data, rs, st) EXCEPT !.produced = @ + 1]
        ELSE LET first == CHOOSE i \in bad : \A j \in bad : i <= j
                 S1 == forEachClient(S, SubSeq(S.clients, 1, first - 1),
                                     data, rs, st)
             IN  [S1 EXCEPT !.produced = @ + 1, !.thrown = TRUE]

\* broadcast(data): every send is inside its own try/catch, so no exception
\* leaves the call.
broadcast(S, data, rs, st) ==
    LET S1 == forEachClient(S, S.clients, data, rs, st)
    IN  [S1 EXCEPT !.produced = @ + 1]

\* The catch clause of a handler after a call in the try block: runs when
\* the call threw
Catch(S, text) ==
    IF S.thrown
    THEN [S EXCEPT !.thrown = FALSE, !.console = Append(@, text)]
    ELSE S

\* Faulty variant of a handler's catch clause: it also resets the health cache
LogErrorAndReset(S, text) ==
    [S EXCEPT !.console = Append(@, text), !.healthData = EmptyMap]

\* The catch clause of a handler when the try block threw before any call:
\* console.error
LogError(S, text) == [S EXCEPT !.console = Append(@, text)]

handleHealthUpdate(S, nodeId, message, t, rs, st) ==
    LET parsed == JSONparse(message) IN
    IF parsed.threw
    THEN LogError(S, "Error processing health update")
    ELSE LET healthData == parsed.val
             S1 == [S EXCEPT !.healthData =
                        MapSet(@, nodeId, SpreadWithLastUpdate(healthData, t))]
         IN  Catch(broadcast(S1, HealthUpdateEvent(nodeId, healthData, t), rs, st),
                   "Error processing health update")

handleOrderbookUpdate(S, message, t, rs, st) ==
    LET parsed == JSONparse(message) IN
    IF parsed.threw \/ parsed.val.isNull
    THEN LogError(S, "Error processing orderbook update")
    ELSE LET data == parsed.val IN
         IF Prop(data, "type") # <<"orderbook_update">>
         THEN S
         ELSE LET eventId == data.obj.eventId
                  nodeId  == data.obj.nodeId
                  nodeMap == IF MapHas(S.orderbooksByNode, nodeId)
                             THEN MapGet(S.orderbooksByNode, nodeId)
                             ELSE EmptyMap
                  S1 == [S EXCEPT !.orderbooksByNode =
                            MapSet(@, nodeId,
                                   MapSet(nodeMap, eventId,
                                          SpreadWithLastUpdate(data, t)))]
              IN  Catch(broadcast(S1,
                                  OrderbookUpdateEvent(eventId, nodeId,
                                      data.obj.marketA, data.obj.marketB, t),
                                  rs, st),
                        "Error processing orderbook update")

\* Faulty variant of the eviction loop: it stops at the first node that
\* holds the market
RemoveFromFirstNode(byNode, eventId) ==
    LET holders == {i \in 1..Len(byNode) : MapHas(byNode[i].v, eventId)}
    IN  [i \in 1..Len(byNode) |->
            IF i \in holders /\ \A j \in holders : i <= j
            THEN [k |-> byNode[i].k, v |-> MapDelete(byNode[i].v, eventId)]
            ELSE byNode[i]]

\* Faulty variant of the eviction: the markets other than eventId are removed
RemoveOtherMarkets(byNode, eventId) ==
    [i \in 1..Len(byNode) |->
        [k |-> byNode[i].k,
         v |-> SelectSeq(byNode[i].v, LAMBDA e : e.k = eventId)]]

\* Faulty variant of the eviction: every market of every node is removed
RemoveEveryMarket(byNode, eventId) ==
    [i \in 1..Len(byNode) |-> [k |-> byNode[i].k, v |-> EmptyMap]]

\* for (const [nodeId, nodeOrderbooks] of orderbooksByNode)
\*     if (nodeOrderbooks.has(eventId)) nodeOrderbooks.delete(eventId)
RemoveFromAllNodes(byNode, eventId) ==
    [i \in 1..Len(byNode) |->
        [k |-> byNode[i].k, v |-> MapDelete(byNode[i].v, eventId)]]

\* Faulty variant of the status test: any status at all counts as terminal
IsAnyStatus(status) == status # << >>

\* statusData.status === 'CLOSED' || statusData.status === 'CLEARED'
IsTerminal(status) == status = <<"CLOSED">> \/ status = <<"CLEARED">>

\* Faulty variant of handleMarketStatusUpdate: market_removed is broadcast
\* inside the eviction loop, once for each node that held the market
handleMarketStatusUpdatePerNode(S, eventId, message, t, rs, st) ==
    LET parsed == JSONparse(message) IN
    IF parsed.threw \/ parsed.val.isNull
    THEN LogError(S, "Error processing market status")
    ELSE LET statusData == parsed.val IN
         IF IsTerminal(Prop(statusData, "status"))
         THEN LET holders == {i \in 1..Len(S.orderbooksByNode) :
                                 MapHas(S.orderbooksByNode[i].v, eventId)}
                  S1 == [S EXCEPT !.orderbooksByNode =
                            RemoveFromAllNodes(@, eventId)]
                  ev == MarketRemovedEvent(eventId, statusData.obj.status, t)
                  B1 == broadcast(S1, ev, rs, st)
              IN  IF Cardinality(holders) <= 1 THEN B1
                  ELSE broadcast(B1, ev, rs, st)
         ELSE S

handleMarketStatusUpdate(S, eventId, message, t, rs, st) ==
    LET parsed == JSONparse(message) IN
    IF parsed.threw \/ parsed.val.isNull
    THEN LogError(S, "Error processing market status")
    ELSE LET statusData == parsed.val IN
         IF IsTerminal(Prop(statusData, "status"))
         THEN LET S1 == [S EXCEPT !.orderbooksByNode =
                            RemoveFromAllNodes(@, eventId)]
              IN  Catch(broadcast(S1,
                                  MarketRemovedEvent(eventId,
                                      statusData.obj.status, t),
                                  rs, st),
                        "Error processing market status")
         ELSE S

\* Faulty variant of handleMarketDiscovery: the count is stored but not
\* broadcast
handleMarketDiscoverySilent(S, message, t, rs, st) ==
    LET parsed == JSONparse(message) IN
    IF parsed.threw \/ parsed.val.isNull
    THEN LogError(S, "Error processing market discovery")
    ELSE [S EXCEPT !.totalMarkets = Prop(parsed.val, "totalMarkets")]

handleMarketDiscovery(S, message, t, rs, st) ==
    LET parsed == JSONparse(message) IN
    IF parsed.threw \/ parsed.val.isNull
    THEN LogError(S, "Error processing market discovery")
    ELSE LET discoveryData == parsed.val
             S1 == [S EXCEPT !.totalMarkets = Prop(discoveryData, "totalMarkets")]
         IN  Catch(broadcast(S1, MarketDiscoveryEvent(S1.totalMarkets, t), rs, st),
                   "Error processing market discovery")

\* --------------------------------------------------------- cold-start replay
\* The events sendCachedDataToClient sends, in the order it sends them
CachedHealthEvents(S, t) ==
    [i \in 1..Len(S.healthData) |->
        HealthUpdateEvent(S.healthData[i].k,
                          StringifyCached(S.healthData[i].v), t)]

NodeOrderbookEvents(nodeId, nodeOrderbooks, t) ==
    [j \in 1..Len(nodeOrderbooks) |->
        OrderbookUpdateEvent(nodeOrderbooks[j].k, nodeId,
                             nodeOrderbooks[j].v.marketA,
                             nodeOrderbooks[j].v.marketB, t)]

\* Faulty variant of the replay loop: only the first node's order books
CachedOrderbookEventsFirstNode(byNode, t) ==
    IF byNode = << >> THEN << >>
    ELSE NodeOrderbookEvents(Head(byNode).k, Head(byNode).v, t)

RECURSIVE CachedOrderbookEvents(_, _)
CachedOrderbookEvents(byNode, t) ==
    IF byNode = << >> THEN << >>
    ELSE NodeOrderbookEvents(Head(byNode).k, Head(byNode).v, t)
         \o CachedOrderbookEvents(Tail(byNode), t)

\* this.totalMarkets > 0 (false for undefined)
IsPositive(totalMarkets) == totalMarkets # << >> /\ totalMarkets[1] > 0

CachedDiscoveryEvents(S, t) ==
    IF IsPositive(S.totalMarkets)
    THEN <<MarketDiscoveryEvent(S.totalMarkets, t)>>
    ELSE << >>

\* Faulty variant of the replay: the market_discovery event is sent first
CachedEventsDiscoveryFirst(S, t) ==
    CachedDiscoveryEvents(S, t) \o CachedHealthEvents(S, t)
        \o CachedOrderbookEvents(S.orderbooksByNode, t)

CachedEvents(S, t) ==
    CachedHealthEvents(S, t) \o CachedOrderbookEvents(S.orderbooksByNode, t)
        \o CachedDiscoveryEvents(S, t)

\* sendCachedDataToClient(client): the sends are in one try block, and send()
\* is called whatever the socket's readyState; a send that raises ends the
\* replay in the catch clause.
sendCachedDataToClient(S, client, t, st) ==
    LET events == CachedEvents(S, t) IN
    IF events = << >> THEN S
    ELSE IF client \in st
    THEN LogError(S, "Error sending cached data to client")
    ELSE [S EXCEPT
            !.sent[client] = @ \o [i \in 1..Len(events) |->
                                     Sent(S.produced + i, "replay", events[i])],
            !.produced = @ + Len(events)]

\* Faulty variant of the connection handler: the cache is replayed twice
onConnectionReplayTwice(S, client, t, st) ==
    sendCachedDataToClient(
        sendCachedDataToClient([S EXCEPT !.clients = SetAdd(@, client)],
                               client, t, st),
        client, t, st)

\* wss.on('connection'): add the socket, then replay the cache to it
onConnection(S, client, t, st) ==
    sendCachedDataToClient([S EXCEPT !.clients = SetAdd(@, client)], client, t, st)

\* ws.on('close')
onClose(S, client) == [S EXCEPT !.clients = SetDelete(@, client)]

\* ------------------------------------------------------------ degraded mode
DemoHealth(cpu, mem, markets, cores, load, disk, t) ==
    [cpuUsage |-> cpu, memoryUsage |-> mem, activeMarkets |-> markets,
     cpuCores |-> cores, loadAverage |-> load, freeDiskSpaceMB |-> disk,
     isHealthy |-> TRUE, lastUpdate |-> t]

DemoSide(id, bids, asks, bestBid, bestAsk, totalOrders) ==
    [marketId |-> id, bids |-> bids, asks |-> asks, bestBid |-> bestBid,
     bestAsk |-> bestAsk, totalOrders |-> totalOrders]

sampleOrderbook(t) ==
    [eventId |-> "DEMO_EVENT_001", nodeId |-> "100.70.127.124",
     marketA |-> DemoSide("YES",
                    <<Level(45, 1000, 3), Level(44, 1500, 5), Level(43, 800, 2)>>,
                    <<Level(47, 800, 2), Level(48, 1200, 4), Level(49, 600, 1)>>,
                    45, 47, 14),
     marketB |-> DemoSide("NO",
                    <<Level(52, 900, 2), Level(51, 1100, 3), Level(50, 700, 2)>>,
                    <<Level(54, 700, 2), Level(55, 1000, 3), Level(56, 500, 1)>>,
                    52, 54, 10),
     lastUpdate |-> t]

sampleOrderbook2(t) ==
    [eventId |-> "DEMO_EVENT_002", nodeId |-> "100.70.127.125",
     marketA |-> DemoSide("YES",
                    <<Level(62, 750, 2), Level(61, 900, 4)>>,
                    <<Level(64, 650, 3), Level(65, 800, 2)>>,
                    62, 64, 11),
     marketB |-> DemoSide("NO",
                    <<Level(35, 1200, 3), Level(34, 800, 2)>>,
                    <<Level(37, 900, 2), Level(38, 1100, 4)>>,
                    35, 37, 11),
     lastUpdate |-> t]

\* Faulty variant of startDemoMode: the store is seeded but setInterval is
\* not called
startDemoModeNoTimer(S, t) ==
    [S EXCEPT
       !.healthData =
           MapSet(MapSet(MapSet(@,
               "100.70.127.124",
               DemoHealth(Hundredths(45, 20), Hundredths(67, 80), 12, 8,
                          Hundredths(2, 34), 45000, t)),
               "100.70.127.125",
               DemoHealth(Hundredths(32, 10), Hundredths(54, 30), 8, 4,
                          Hundredths(1, 87), 32000, t)),
               "192.168.1.100",
               DemoHealth(Hundredths(28, 50), Hundredths(42, 10), 6, 4,
                          Hundredths(1, 22), 28000, t)),
       !.orderbooksByNode =
           MapSet(MapSet(@,
               "100.70.127.124",
               MapSet(EmptyMap, "DEMO_EVENT_001", sampleOrderbook(t))),
               "100.70.127.125",
               MapSet(EmptyMap, "DEMO_EVENT_002", sampleOrderbook2(t))),
       !.totalMarkets = <<25>>]

\* startDemoMode(): seed the caches, set totalMarkets, start the 5 s timer
startDemoMode(S, t) ==
    [startDemoModeNoTimer(S, t) EXCEPT !.timers = @ + 1]

\* Faulty variant of the clamp: the upper limit is not applied
ClampBelowOnly(x) == IF x = NaN THEN NaN ELSE IF x < 0 THEN 0 ELSE x

\* Math.max(0, Math.min(100, x)), x in hundredths; NaN stays NaN
Clamp(x) ==
    IF x = NaN THEN NaN
    ELSE IF x > Hundredths(100, 0) THEN Hundredths(100, 0)
    ELSE IF x < 0 THEN 0 ELSE x

\* health.f as a number: a field the record lacks reads undefined, and
\* undefined plus a number is NaN
NumberField(health, f) == IF f \in DOMAIN health THEN health[f] ELSE NaN

\* The health loop of updateDemoData from record i on.  draws[i].cpu and
\* draws[i].mem are the two Math.random() results for record i, in
\* hundredths: (Math.random() - 0.5) * 10 and (Math.random() - 0.5) * 5.
RECURSIVE perturbHealth(_, _, _, _, _, _)
perturbHealth(S, i, draws, t, rs, st) ==
    IF i > Len(S.healthData) THEN S
    ELSE LET nodeId == S.healthData[i].k
             health == S.healthData[i].v
             health2 ==
                 ("cpuUsage" :> Clamp(Plus(NumberField(health, "cpuUsage"),
                                           (draws[i].cpu - 50) * 10)))
                 @@ ("memoryUsage" :> Clamp(Plus(NumberField(health, "memoryUsage"),
                                                 (draws[i].mem - 50) * 5)))
                 @@ ("lastUpdate" :> t)
                 @@ health
             S1 == [S EXCEPT !.healthData[i].v = health2]
         IN  perturbHealth(
                 broadcast(S1,
                     HealthUpdateEvent(nodeId, StringifyCached(health2), t),
                     rs, st),
                 i + 1, draws, t, rs, st)

\* Faulty variant of the shift: a step of two
ShiftOfTwo(draw) == IF draw > 50 THEN 2 ELSE -2

\* Math.random() > 0.5 ? 1 : -1
ShiftOf(draw) == IF draw > 50 THEN 1 ELSE -1

\* The update of one Side: bids[0] and asks[0] are shifted when present and
\* bestBid / bestAsk are set to the shifted price
perturbSide(side, draw) ==
    LET bids == IF Len(side.bids) > 0
                THEN [side.bids EXCEPT ![1].price = @ + ShiftOf(draw.bid)]
                ELSE side.bids
        asks == IF Len(side.asks) > 0
                THEN [side.asks EXCEPT ![1].price = @ + ShiftOf(draw.ask)]
                ELSE side.asks
    IN  [side EXCEPT
           !.bids = bids, !.asks = asks,
           !.bestBid = IF Len(side.bids) > 0 THEN bids[1].price ELSE @,
           !.bestAsk = IF Len(side.asks) > 0 THEN asks[1].price ELSE @]

\* The order-book loops of updateDemoData from book j of node i on
RECURSIVE perturbBooks(_, _, _, _, _, _, _)
perturbBooks(S, i, j, draws, t, rs, st) ==
    IF i > Len(S.orderbooksByNode) THEN S
    ELSE IF j > Len(S.orderbooksByNode[i].v)
    THEN perturbBooks(S, i + 1, 1, draws, t, rs, st)
    ELSE LET nodeId == S.orderbooksByNode[i].k
             eventId == S.orderbooksByNode[i].v[j].k
             orderbook == S.orderbooksByNode[i].v[j].v
             orderbook2 == [orderbook EXCEPT
                 !.marketA = perturbSide(@, draws[<<i, j>>]),
                 !.lastUpdate = t]
             S1 == [S EXCEPT !.orderbooksByNode[i].v[j].v = orderbook2]
         IN  perturbBooks(
                 broadcast(S1,
                     OrderbookUpdateEvent(eventId, nodeId, orderbook2.marketA,
                                          orderbook2.marketB, t),
                     rs, st),
                 i, j + 1, draws, t, rs, st)

\* updateDemoData(): draws.health, draws.occasion and draws.books are the
\* Math.random() results it consumes
updateDemoData(S, draws, t, rs, st) ==
    LET S1 == perturbHealth(S, 1, draws.health, t, rs, st)
    IN  IF draws.occasion < 30
        THEN perturbBooks(S1, 1, 1, draws.books, t, rs, st)
        ELSE S1

\* The positions <<i, j>> of the order books in the cache
BookIndex(S) ==
    UNION {{<<i, j>> : j \in 1..Len(S.orderbooksByNode[i].v)} :
              i \in 1..Len(S.orderbooksByNode)}

\* Math.random() results, in hundredths of [0, 1)
RandomDraws == {0, 99}

\* The draws of a tick that leaves the health percentages where they are
CalmHealthDraws == {[cpu |-> 50, mem |-> 50]}

\* The draws of a tick that moves both percentages of a record as far down
\* or as far up as one tick can
WideHealthDraws == {[cpu |-> r, mem |-> r] : r \in RandomDraws}

BookDraws == [bid : RandomDraws, ask : RandomDraws]

\* ------------------------------------------------- ComprehensiveMonitor core
monHandleHealthUpdate(M, nodeId, message, t) ==
    LET parsed == JSONparse(message) IN
    IF parsed.threw
    THEN LogError(M, "Error processing health update")
    ELSE [M EXCEPT !.healthData =
                      MapSet(@, nodeId, SpreadWithLastUpdate(parsed.val, t)),
                   !.lastUpdateTime = t]

\* Faulty variant of the monitor's order-book handler: the type of the
\* payload is not looked at
monHandleOrderbookUpdateUntyped(M, message, t) ==
    LET parsed == JSONparse(message) IN
    IF parsed.threw \/ parsed.val.isNull
    THEN LogError(M, "Error processing orderbook update")
    ELSE LET data == parsed.val
             eventId == data.obj.eventId
             nodeId  == data.obj.nodeId
             nodeMap == IF MapHas(M.orderbooksByNode, nodeId)
                        THEN MapGet(M.orderbooksByNode, nodeId)
                        ELSE EmptyMap
         IN  [M EXCEPT !.orderbooksByNode =
                          MapSet(@, nodeId,
                                 MapSet(nodeMap, eventId,
                                        SpreadWithLastUpdate(data, t))),
                       !.lastUpdateTime = t]

monHandleOrderbookUpdate(M, message, t) ==
    LET parsed == JSONparse(message) IN
    IF parsed.threw \/ parsed.val.isNull
    THEN LogError(M, "Error processing orderbook update")
    ELSE LET data == parsed.val IN
         IF Prop(data, "type") # <<"orderbook_update">>
         THEN M
         ELSE LET eventId == data.obj.eventId
                  nodeId  == data.obj.nodeId
                  nodeMap == IF MapHas(M.orderbooksByNode, nodeId)
                             THEN MapGet(M.orderbooksByNode, nodeId)
                             ELSE EmptyMap
              IN  [M EXCEPT !.orderbooksByNode =
                               MapSet(@, nodeId,
                                      MapSet(nodeMap, eventId,
                                             SpreadWithLastUpdate(data, t))),
                            !.lastUpdateTime = t]

\* The status record is stored before statusData.status is read, so a null
\* payload is stored and only then raises the TypeError.
monHandleMarketStatusUpdate(M, eventId, message, t) ==
    LET parsed == JSONparse(message) IN
    IF parsed.threw
    THEN LogError(M, "Error processing market status")
    ELSE LET statusData == parsed.val
             M1 == [M EXCEPT !.marketStatus =
                       MapSet(@, eventId, SpreadWithLastUpdate(statusData, t))]
         IN  IF statusData.isNull
             THEN LogError(M1, "Error processing market status")
             ELSE IF IsTerminal(Prop(statusData, "status"))
             THEN [M1 EXCEPT !.orderbooksByNode = RemoveFromAllNodes(@, eventId),
                             !.lastUpdateTime = t]
             ELSE [M1 EXCEPT !.lastUpdateTime = t]

monHandleMarketDiscovery(M, message, t) ==
    LET parsed == JSONparse(message) IN
    IF parsed.threw \/ parsed.val.isNull
    THEN LogError(M, "Error processing market discovery")
    ELSE [M EXCEPT !.totalMarkets = Prop(parsed.val, "totalMarkets"),
                   !.lastUpdateTime = t]

\* ---------------------------------------------------------------- initial
\* new DashboardServer(): empty caches, totalMarkets 0, no clients
NewServer ==
    [healthData |-> EmptyMap, orderbooksByNode |-> EmptyMap,
     totalMarkets |-> <<0>>, clients |-> << >>,
     sent |-> [c \in Clients |-> << >>], console |-> << >>,
     produced |-> 0, thrown |-> FALSE,
     redisClientOpen |-> FALSE, redisSubscriberOpen |-> FALSE, timers |-> 0,
     subscriptions |-> {}]

\* new ComprehensiveMonitor(): totalMarkets is not set by the constructor
NewMonitor(t) ==
    [healthData |-> EmptyMap, orderbooksByNode |-> EmptyMap,
     marketStatus |-> EmptyMap, totalMarkets |-> << >>,
     lastUpdateTime |-> t, console |-> << >>, started |-> FALSE,
     screen |-> << >>]

\* The <<node, market>> pairs that have an order-book record
ObKeys(byNode) ==
    UNION {{<<byNode[i].k, byNode[i].v[j].k>> : j \in 1..Len(byNode[i].v)} :
              i \in 1..Len(byNode)}

\* ------------------------------------------------------ terminal display
\* levels with x put behind the levels whose price is not below x.price
InsertDesc(levels, x) ==
    LET ahead == {k \in 1..Len(levels) : levels[k].price >= x.price}
        n == IF ahead = {} THEN 0
             ELSE CHOOSE k \in ahead : \A j \in ahead : j <= k
    IN  SubSeq(levels, 1, n) \o <<x>> \o SubSeq(levels, n + 1, Len(levels))

\* Array.prototype.sort((a, b) => b.price - a.price): stable, highest first
RECURSIVE SortDesc(_)
SortDesc(levels) ==
    IF levels = << >> THEN << >>
    ELSE InsertDesc(SortDesc(SubSeq(levels, 1, Len(levels) - 1)),
                    levels[Len(levels)])

\* Faulty variant of the sorted copy: levels.sort(...) sorts the stored array
ArrayAfterSortInPlace(levels) == SortDesc(levels)

\* The stored array after [...levels].sort(...): the copy was sorted
ArrayAfterSortOfCopy(levels) == levels

\* displayCompleteMarketOrderbook(market): the lines it prints and the Side
\* as it leaves it
displayCompleteMarketOrderbook(market) ==
    [lines  |-> [marketId |-> market.marketId,
                 totalOrders |-> market.totalOrders,
                 best |-> <<market.bestBid, market.bestAsk>>,
                 asks |-> SortDesc(market.asks),
                 spread |-> IF market.bestBid > 0 /\ market.bestAsk > 0
                            THEN <<market.bestAsk - market.bestBid>>
                            ELSE << >>,
                 bids |-> SortDesc(market.bids)],
     market |-> [market EXCEPT !.asks = ArrayAfterSortOfCopy(@),
                               !.bids = ArrayAfterSortOfCopy(@)]]

\* age < 60 && health.isHealthy, with the age in seconds
ShownHealthy(health, t) ==
    /\ t - health.lastUpdate < 60
    /\ "isHealthy" \in DOMAIN health
    /\ health.isHealthy = TRUE

\* The order the comparator of displayHealthStatus puts the node ids in: the
\* master first, the others by localeCompare
NodeOrder == <<"100.70.127.124", "10.0.0.1", "10.0.0.2", "100.70.127.125",
               "192.168.1.100">>

\* displayHealthStatus(now): one line per node, from a sorted copy of the
\* entries
displayHealthStatus(M, t) ==
    LET sortedNodes == SelectSeq(NodeOrder, LAMBDA n : MapHas(M.healthData, n))
    IN  [i \in 1..Len(sortedNodes) |->
            [nodeId |-> sortedNodes[i],
             healthy |-> ShownHealthy(MapGet(M.healthData, sortedNodes[i]), t)]]

\* displayOrderbookStatus(now): the lines per node and market, in Map order
displayOrderbookStatus(M) ==
    [i \in 1..Len(M.orderbooksByNode) |->
        [nodeId |-> M.orderbooksByNode[i].k,
         markets |->
            [j \in 1..Len(M.orderbooksByNode[i].v) |->
                LET orderbook == M.orderbooksByNode[i].v[j].v IN
                [eventId |-> M.orderbooksByNode[i].v[j].k,
                 marketA |-> displayCompleteMarketOrderbook(orderbook.marketA).lines,
                 marketB |-> displayCompleteMarketOrderbook(orderbook.marketB).lines]]]]

\* The order books as the display functions leave them
BooksAfterDisplay(byNode) ==
    [i \in 1..Len(byNode) |->
        [k |-> byNode[i].k,
         v |-> [j \in 1..Len(byNode[i].v) |->
                  [k |-> byNode[i].v[j].k,
                   v |-> [byNode[i].v[j].v EXCEPT
                            !.marketA = displayCompleteMarketOrderbook(@).market,
                            !.marketB = displayCompleteMarketOrderbook(@).market]]]]]

\* displaySystemSummary(): totals
displaySystemSummary(M, t) ==
    [totalNodes |-> Len(M.healthData),
     healthyNodes |-> Cardinality({i \in 1..Len(M.healthData) :
                                      ShownHealthy(M.healthData[i].v, t)}),
     totalActiveMarkets |-> Cardinality(ObKeys(M.orderbooksByNode)),
     totalMarkets |-> M.totalMarkets]

\* displayStatus(): console.clear() and the three sections
displayStatus(M, t) ==
    [M EXCEPT
       !.screen = <<[health |-> displayHealthStatus(M, t),
                     orderbooks |-> displayOrderbookStatus(M),
                     summary |-> displaySystemSummary(M, t)]>>,
       !.orderbooksByNode = BooksAfterDisplay(@)]

Namespaces == {"healthData", "orderbooksByNode", "marketStatus", "totalMarkets"}

HandlerErrors == {"Error processing health update",
                  "Error processing orderbook update",
                  "Error processing market status",
                  "Error processing market discovery"}

\* How a handler call ended: in its catch clause, or normally
Outcome(before, after) ==
    IF \E i \in (Len(before.console) + 1)..Len(after.console) :
           after.console[i] \in HandlerErrors
    THEN "error" ELSE "ok"

\* The record of one reaction step of a process: what was handled, when, and
\* what the step did to the process, read off its state before and after.
\*   changed  - the store namespaces whose value differs
\*   evicted  - the order-book keys that were removed
\*   errors   - the number of lines written to console.error
\*   seq0     - the number of events produced before the step
\*   attached - the clients set before the step
\*   open     - the attached clients that were OPEN with a working channel
\*   threw    - the attached clients that were OPEN with a broken channel
Step(n, op, key, message, t, before, after, attached, rs, st) ==
    [n |-> n, op |-> op, key |-> key, message |-> message, at |-> t,
     outcome  |-> Outcome(before, after),
     changed  |-> {ns \in Namespaces \cap DOMAIN before : before[ns] # after[ns]},
     evicted  |-> ObKeys(before.orderbooksByNode) \ ObKeys(after.orderbooksByNode),
     errors   |-> Len(after.console) - Len(before.console),
     seq0     |-> IF "produced" \in DOMAIN before THEN before.produced ELSE 0,
     attached |-> attached,
     open     |-> {c \in attached : rs[c] = "OPEN" /\ c \notin st},
     threw    |-> {c \in attached : rs[c] = "OPEN" /\ c \in st}]

NoHealth == [count |-> 0, message |-> "", at |-> 0]

\* The latest health text that was JSON, and how many there have been
Heard(h, message, t) == [count |-> h.count + 1, message |-> message, at |-> t]

Init ==
    /\ now = 0
    /\ busMsg = NoMessage
    /\ pending = {}
    /\ published = 0
    /\ phase = "constructed"
    /\ server = NewServer
    /\ readyState = [c \in Clients |-> "NONE"]
    /\ sendThrows = {}
    /\ socketEvents = 0
    /\ monitor = NewMonitor(0)
    /\ last = Step(0, "new", "", "", 0, NewServer, NewServer, {},
                   [c \in Clients |-> "NONE"], {})
    /\ monLast = Step(0, "new", "", "", 0, NewMonitor(0), NewMonitor(0), {},
                      [c \in Clients |-> "NONE"], {})
    /\ shadow = NewServer
    /\ heard = [p \in {"server", "monitor"} |-> [n \in Nodes |-> NoHealth]]
    /\ ticks = 0

\* ----------------------------------------------------------------- actions
\* DashboardServer.start() with Redis reachable: subscriptions are set up
\* and the WebSocket server listens
StartServer ==
    /\ phase = "constructed"
    /\ phase' = "live"
    /\ server' = [server EXCEPT !.redisClientOpen = TRUE,
                                !.redisSubscriberOpen = TRUE,
                                !.subscriptions = SubscribedAfter(4)]
    /\ shadow' = [shadow EXCEPT !.redisClientOpen = TRUE,
                                !.redisSubscriberOpen = TRUE,
                                !.subscriptions = SubscribedAfter(4)]
    /\ last' = Step(last.n + 1, "start", "", "", now, server, server',
                    SetMembers(server.clients), readyState, sendThrows)
    /\ UNCHANGED <<now, busMsg, pending, published, readyState,
                   sendThrows, socketEvents, monitor, monLast, heard, ticks>>

\* ComprehensiveMonitor.start()
StartMonitor ==
    /\ ~monitor.started
    /\ monitor' = displayStatus([monitor EXCEPT !.started = TRUE], now)
    /\ monLast' = Step(monLast.n + 1, "start", "", "", now, monitor, monitor',
                       {}, readyState, sendThrows)
    /\ UNCHANGED <<now, busMsg, pending, published, phase, server, readyState,
                   sendThrows, socketEvents, last, shadow, heard, ticks>>

\* The processes subscribed when a message is published
Subscribers(m) ==
    (IF /\ server.redisSubscriberOpen
        /\ m.channel # << >>
        /\ m.channel[1] \in server.subscriptions
     THEN {"server"} ELSE {})
        \cup (IF monitor.started THEN {"monitor"} ELSE {})

\* Redis hands the message m to the subscriber sub: either m is published
\* now and sub is the first to be handed it, or m is the message that is
\* being delivered and sub has not yet been handed it.
Delivery(sub, feed, m) ==
    \/ /\ pending = {}
       /\ published < MaxMsgs
       /\ sub \in Subscribers(m)
       /\ m \in feed
       /\ busMsg' = m
       /\ pending' = Subscribers(m) \ {sub}
       /\ published' = published + 1
       /\ now' = now + 1
    \/ /\ sub \in pending
       /\ m = busMsg
       /\ pending' = pending \ {sub}
       /\ UNCHANGED <<busMsg, published, now>>

\* The dashboard server's reaction to the message: real state S2, and the
\* shadow, which skips a text that is not JSON
ServerReacts(op, key, message, S2, Sh2) ==
    /\ server' = S2
    /\ shadow' = IF JSONparse(message).threw THEN shadow ELSE Sh2
    /\ last' = Step(last.n + 1, op, key, message, now', server, S2,
                    SetMembers(server.clients), readyState, sendThrows)
    /\ heard' = IF op = "metrics" /\ ~JSONparse(message).threw
                THEN [heard EXCEPT !["server"][key] = Heard(@, message, now')]
                ELSE heard
    /\ UNCHANGED <<phase, readyState, sendThrows, socketEvents, monitor, monLast,
                   ticks>>

\* pSubscribe('metrics:*') callback
OnMetrics(feed) ==
    \E m \in feed :
        /\ Len(m.channel) >= 2 /\ m.channel[1] = "metrics"
        /\ Delivery("server", feed, m)
        /\ LET nodeId == m.channel[2] IN
           ServerReacts("metrics", nodeId, m.message,
               handleHealthUpdate(server, nodeId, m.message, now',
                                  readyState, sendThrows),
               handleHealthUpdate(shadow, nodeId, m.message, now',
                                  readyState, sendThrows))

\* subscribe('orderbooks') callback
OnOrderbooks(feed) ==
    \E m \in feed :
        /\ m.channel = <<"orderbooks">>
        /\ Delivery("server", feed, m)
        /\ ServerReacts("orderbooks", "", m.message,
               handleOrderbookUpdate(server, m.message, now',
                                     readyState, sendThrows),
               handleOrderbookUpdate(shadow, m.message, now',
                                     readyState, sendThrows))

\* pSubscribe('market_status:*') callback
OnMarketStatus(feed) ==
    \E m \in feed :
        /\ Len(m.channel) >= 2 /\ m.channel[1] = "market_status"
        /\ Delivery("server", feed, m)
        /\ LET eventId == m.channel[2] IN
           ServerReacts("market_status", eventId, m.message,
               handleMarketStatusUpdate(server, eventId, m.message, now',
                                        readyState, sendThrows),
               handleMarketStatusUpdate(shadow, eventId, m.message, now',
                                        readyState, sendThrows))

\* subscribe('market_discovery') callback
OnMarketDiscovery(feed) ==
    \E m \in feed :
        /\ m.channel = <<"market_discovery">>
        /\ Delivery("server", feed, m)
        /\ ServerReacts("market_discovery", "", m.message,
               handleMarketDiscovery(server, m.message, now',
                                     readyState, sendThrows),
               handleMarketDiscovery(shadow, m.message, now',
                                     readyState, sendThrows))

\* Sockets are created in the order ws1, ws2
NextSocket ==
    IF readyState["ws1"] = "NONE" THEN "ws1"
    ELSE IF readyState["ws2"] = "NONE" THEN "ws2" ELSE "none"

\* A client connects: wss 'connection' handler.  The socket is OPEN; its
\* channel may already be broken, so that send() raises.
Connection ==
    \E client \in Clients, broken \in BOOLEAN :
        /\ phase \in {"live", "demo"}
        /\ pending = {}
        /\ socketEvents < MaxSocketEvents
        /\ socketEvents' = socketEvents + 1
        /\ client = NextSocket
        /\ readyState' = [readyState EXCEPT ![client] = "OPEN"]
        /\ sendThrows' = IF broken THEN sendThrows \cup {client} ELSE sendThrows
        /\ server' = onConnection(server, client, now, sendThrows')
        /\ shadow' = onConnection(shadow, client, now, sendThrows')
        /\ last' = Step(last.n + 1, "connection", client, "", now, server,
                        server', SetMembers(server.clients) \cup {client},
                        readyState', sendThrows')
        /\ UNCHANGED <<now, busMsg, pending, published, phase, monitor, monLast,
                       heard, ticks>>

\* The channel of an open client breaks: its next send() raises
ChannelBreaks ==
    \E client \in Clients :
        /\ pending = {}
        /\ socketEvents < MaxSocketEvents
        /\ socketEvents' = socketEvents + 1
        /\ readyState[client] = "OPEN"
        /\ client \notin sendThrows
        /\ sendThrows' = sendThrows \cup {client}
        /\ UNCHANGED <<now, busMsg, pending, published, phase, server,
                       readyState, monitor, last, monLast, shadow, heard, ticks>>

\* A client starts closing: readyState leaves OPEN before 'close' is emitted
ClientCloses ==
    \E client \in Clients :
        /\ pending = {}
        /\ socketEvents < MaxSocketEvents
        /\ socketEvents' = socketEvents + 1
        /\ readyState[client] = "OPEN"
        /\ readyState' = [readyState EXCEPT ![client] = "CLOSING"]
        /\ UNCHANGED <<now, busMsg, pending, published, phase, server,
                       sendThrows, monitor, last, monLast, shadow, heard, ticks>>

\* The socket emits 'close': ws 'close' handler
WsClose ==
    \E client \in Clients :
        /\ pending = {}
        /\ socketEvents < MaxSocketEvents
        /\ socketEvents' = socketEvents + 1
        /\ readyState[client] = "CLOSING"
        /\ readyState' = [readyState EXCEPT ![client] = "CLOSED"]
        /\ server' = onClose(server, client)
        /\ shadow' = onClose(shadow, client)
        /\ last' = Step(last.n + 1, "close", client, "", now, server, server',
                        SetMembers(server.clients), readyState, sendThrows)
        /\ UNCHANGED <<now, busMsg, pending, published, phase, sendThrows,
                       monitor, monLast, heard, ticks>>

\* The steps of start() inside its try block that can reject: 0 is
\* redisClient.connect(), 1 is redisSubscriber.connect(), 2 to 5 are the
\* four subscribe calls of setupRedisSubscriptions
StartFailures == 0..5

\* Redis unreachable: the first connect rejects
Unreachable == {0}

\* One of the two connects rejects
ConnectFailures == {0, 1}

\* The start() of a server whose step failedAt rejects, as S leaves it:
\* the connections and subscriptions made before that step stay, the catch
\* clause starts demo mode.  A rejected subscribe can leave the subscriber
\* connection open (an error reply) or closed (the connection was lost).
startFailing(S, failedAt, stillOpen, t) ==
    [startDemoMode(S, t) EXCEPT
        !.redisClientOpen = failedAt >= 1,
        !.redisSubscriberOpen = failedAt >= 2 /\ stillOpen,
        !.subscriptions = SubscribedAfter(failedAt - 2)]

\* DashboardServer.start() with a step of the try block rejecting: the
\* catch clause starts demo mode and the WebSocket server listens
StartDemo(failures) ==
    \E failedAt \in failures, stillOpen \in BOOLEAN :
        /\ phase = "constructed"
        /\ phase' = "demo"
        /\ server' = startFailing(server, failedAt, stillOpen, now)
        /\ shadow' = startFailing(shadow, failedAt, stillOpen, now)
        /\ last' = Step(last.n + 1, "startDemo", "", "", now, server, server',
                        SetMembers(server.clients), readyState, sendThrows)
        /\ UNCHANGED <<now, busMsg, pending, published, readyState, sendThrows,
                       socketEvents, monitor, monLast, heard, ticks>>

\* The setInterval callback: the timer is never cleared, so it fires as long
\* as the process is alive.  The draws for the books are made only when the
\* draw o opens the order-book branch.
Tick(healthDraws, occasionDraws, bookDraws) ==
    \E h \in [1..Len(server.healthData) -> healthDraws],
       o \in occasionDraws :
      \E b \in (IF o < 30 THEN [BookIndex(server) -> bookDraws] ELSE {<< >>}) :
        /\ server.timers > 0
        /\ phase # "exited"
        /\ pending = {}
        /\ ticks < MaxTicks
        /\ ticks' = ticks + 1
        /\ now' = now + 1
        /\ LET draws == [health |-> h, occasion |-> o, books |-> b] IN
           /\ server' = updateDemoData(server, draws, now', readyState,
                                       sendThrows)
           /\ shadow' = updateDemoData(shadow, draws, now', readyState,
                                       sendThrows)
        /\ last' = Step(last.n + 1, "tick", "", "", now', server, server',
                        SetMembers(server.clients), readyState, sendThrows)
        /\ UNCHANGED <<busMsg, pending, published, phase, readyState,
                       sendThrows, socketEvents, monitor, monLast, heard>>

\* What stop() goes on to after a step: the next Redis connection it has
\* to await the quit of, or process.exit
AfterStop(S) ==
    IF S.redisSubscriberOpen THEN "quittingSubscriber"
    ELSE IF S.redisClientOpen THEN "quittingClient"
    ELSE "exited"

\* SIGINT: stop() runs up to its first await.  wss.close() stops accepting
\* connections; whether it also terminates the connected sockets depends on
\* the version of the ws package.
StopBegin ==
    \E terminates \in BOOLEAN :
        /\ phase \in {"live", "demo"}
        /\ pending = {}
        /\ phase' = AfterStop(server)
        /\ readyState' = [c \in Clients |->
                             IF terminates /\ readyState[c] = "OPEN"
                             THEN "CLOSING" ELSE readyState[c]]
        /\ last' = Step(last.n + 1, "stop", "", "", now, server, server,
                        SetMembers(server.clients), readyState, sendThrows)
        /\ UNCHANGED <<now, busMsg, pending, published, server, sendThrows,
                       socketEvents, monitor, monLast, shadow, heard, ticks>>

\* await this.redisSubscriber.quit() resolves
SubscriberQuit ==
    /\ phase = "quittingSubscriber"
    /\ pending = {}
    /\ server' = [server EXCEPT !.redisSubscriberOpen = FALSE]
    /\ shadow' = [shadow EXCEPT !.redisSubscriberOpen = FALSE]
    /\ phase' = AfterStop(server')
    /\ last' = Step(last.n + 1, "stop", "", "", now, server, server',
                    SetMembers(server.clients), readyState, sendThrows)
    /\ UNCHANGED <<now, busMsg, pending, published, readyState, sendThrows,
                   socketEvents, monitor, monLast, heard, ticks>>

\* await this.redisClient.quit() resolves; process.exit(0)
ClientQuit ==
    /\ phase = "quittingClient"
    /\ server' = [server EXCEPT !.redisClientOpen = FALSE]
    /\ shadow' = [shadow EXCEPT !.redisClientOpen = FALSE]
    /\ phase' = AfterStop(server')
    /\ last' = Step(last.n + 1, "stop", "", "", now, server, server',
                    SetMembers(server.clients), readyState, sendThrows)
    /\ UNCHANGED <<now, busMsg, pending, published, readyState, sendThrows,
                   socketEvents, monitor, monLast, heard, ticks>>

\* The setInterval callback of startDisplay: the screen is drawn again.
\* Two draws in a row show the same store.
DisplayTick ==
    /\ monitor.started
    /\ pending = {}
    /\ monLast.op # "display"
    /\ monitor' = displayStatus(monitor, now)
    /\ monLast' = Step(monLast.n + 1, "display", "", "", now, monitor, monitor',
                       {}, readyState, sendThrows)
    /\ UNCHANGED <<now, busMsg, pending, published, phase, server, readyState,
                   sendThrows, socketEvents, last, shadow, heard, ticks>>

\* The monitor's reaction to the message
MonitorReacts(op, key, message, M2) ==
    /\ monitor' = M2
    /\ monLast' = Step(monLast.n + 1, op, key, message, now', monitor, M2,
                       {}, readyState, sendThrows)
    /\ heard' = IF op = "metrics" /\ ~JSONparse(message).threw
                THEN [heard EXCEPT !["monitor"][key] = Heard(@, message, now')]
                ELSE heard
    /\ UNCHANGED <<phase, server, readyState, sendThrows, socketEvents, last,
                   shadow, ticks>>

MonOnMetrics(feed) ==
    \E m \in feed :
        /\ Len(m.channel) >= 2 /\ m.channel[1] = "metrics"
        /\ Delivery("monitor", feed, m)
        /\ MonitorReacts("metrics", m.channel[2], m.message,
               monHandleHealthUpdate(monitor, m.channel[2], m.message, now'))

MonOnOrderbooks(feed) ==
    \E m \in feed :
        /\ m.channel = <<"orderbooks">>
        /\ Delivery("monitor", feed, m)
        /\ MonitorReacts("orderbooks", "", m.message,
               monHandleOrderbookUpdate(monitor, m.message, now'))

MonOnMarketStatus(feed) ==
    \E m \in feed :
        /\ Len(m.channel) >= 2 /\ m.channel[1] = "market_status"
        /\ Delivery("monitor", feed, m)
        /\ MonitorReacts("market_status", m.channel[2], m.message,
               monHandleMarketStatusUpdate(monitor, m.channel[2],
                                           m.message, now'))

MonOnMarketDiscovery(feed) ==
    \E m \in feed :
        /\ m.channel = <<"market_discovery">>
        /\ Delivery("monitor", feed, m)
        /\ MonitorReacts("market_discovery", "", m.message,
               monHandleMarketDiscovery(monitor, m.message, now'))

\* The dashboard server, its bus feed and its WebSocket clients
Next ==
    \/ StartServer
    \/ OnMetrics(FanoutFeed)
    \/ OnOrderbooks(FanoutFeed)
    \/ OnMarketStatus(FanoutFeed)
    \/ OnMarketDiscovery(FanoutFeed)
    \/ Connection
    \/ ChannelBreaks
    \/ ClientCloses
    \/ WsClose

Spec == Init /\ [][Next]_vars

\* The two subscribers, dashboard server and monitor, on the same bus feed
NextStores ==
    \/ StartServer
    \/ StartMonitor
    \/ OnMetrics(BusMessages)
    \/ OnOrderbooks(BusMessages)
    \/ OnMarketStatus(BusMessages)
    \/ OnMarketDiscovery(BusMessages)
    \/ MonOnMetrics(BusMessages)
    \/ MonOnOrderbooks(BusMessages)
    \/ MonOnMarketStatus(BusMessages)
    \/ MonOnMarketDiscovery(BusMessages)

SpecStores == Init /\ [][NextStores]_vars

\* The dashboard server's cache is filled and clients connect to it
NextReplay ==
    \/ StartServer
    \/ OnMetrics(ReplayFeed)
    \/ OnOrderbooks(ReplayFeed)
    \/ OnMarketDiscovery(ReplayFeed)
    \/ Connection

SpecReplay == Init /\ [][NextReplay]_vars

\* Math.random() results for which updateDemoData leaves the books alone
QuietDraws == {99}

\* The dashboard server from start, live or in demo mode, to shutdown
NextLifecycle ==
    \/ StartServer
    \/ StartDemo(ConnectFailures)
    \/ OnMetrics(LifeFeed)
    \/ Tick(CalmHealthDraws, QuietDraws, BookDraws)
    \/ Connection
    \/ StopBegin
    \/ SubscriberQuit
    \/ ClientQuit

SpecLifecycle == Init /\ [][NextLifecycle]_vars

\* The dashboard server in demo mode: the timer moves the order books
NextDemo ==
    \/ StartDemo(Unreachable)
    \/ Tick(CalmHealthDraws, RandomDraws, BookDraws)
    \/ Connection

SpecDemo == Init /\ [][NextDemo]_vars

\* Percentages a demo health record can hold after enough ticks
EdgePercentages ==
    {0, Hundredths(2, 0), Hundredths(98, 0), Hundredths(100, 0)}

\* Demo mode some ticks after its start: the first health record has moved
\* to the percentages cpu and mem
InitWalk ==
    \E cpu \in EdgePercentages, mem \in EdgePercentages :
        LET walked(S) == [startDemoMode(S, now) EXCEPT
                             !.healthData[1].v.cpuUsage = cpu,
                             !.healthData[1].v.memoryUsage = mem]
        IN  /\ now = 1
            /\ busMsg = NoMessage
            /\ pending = {}
            /\ published = 0
            /\ phase = "demo"
            /\ server = walked(NewServer)
            /\ shadow = walked(NewServer)
            /\ readyState = [c \in Clients |-> "NONE"]
            /\ sendThrows = {}
            /\ socketEvents = 0
            /\ monitor = NewMonitor(0)
            /\ last = Step(0, "startDemo", "", "", now, NewServer, server,
                           {}, readyState, sendThrows)
            /\ monLast = Step(0, "new", "", "", 0, monitor, monitor, {},
                              readyState, sendThrows)
            /\ heard = [p \in {"server", "monitor"} |->
                           [n \in Nodes |-> NoHealth]]
            /\ ticks = 0

\* Demo mode with the health percentages moving by the widest steps
NextWalk ==
    \/ Tick(WideHealthDraws, QuietDraws, BookDraws)
    \/ Connection

SpecWalk == InitWalk /\ [][NextWalk]_vars

\* The dashboard server and its clients on a bus that carries discovery
\* messages only
NextDiscovery ==
    \/ StartServer
    \/ OnMarketDiscovery(DiscoveryFeed)
    \/ Connection

SpecDiscovery == Init /\ [][NextDiscovery]_vars

\* The dashboard server whose start can fail at any step, with the bus and
\* the demo timer
NextPartial ==
    \/ StartServer
    \/ StartDemo(StartFailures)
    \/ OnMetrics(LifeFeed)
    \/ Tick(CalmHealthDraws, QuietDraws, BookDraws)
    \/ Connection

SpecPartial == Init /\ [][NextPartial]_vars

\* The server with its WebSocket clients and the monitor with its terminal
\* display, on the same bus
NextObservers ==
    \/ StartServer
    \/ StartMonitor
    \/ OnMetrics(DisplayFeed)
    \/ OnOrderbooks(DisplayFeed)
    \/ MonOnMetrics(DisplayFeed)
    \/ MonOnOrderbooks(DisplayFeed)
    \/ Connection
    \/ DisplayTick

SpecObservers == Init /\ [][NextObservers]_vars

\* The dashboard server with WebSocket clients, fed by the bus or, in demo
\* mode, by the timer
NextPush ==
    \/ StartServer
    \/ StartDemo(Unreachable)
    \/ OnMetrics(FanoutFeed)
    \/ OnOrderbooks(FanoutFeed)
    \/ OnMarketStatus(FanoutFeed)
    \/ OnMarketDiscovery(FanoutFeed)
    \/ Tick(CalmHealthDraws, RandomDraws, BookDraws)
    \/ Connection

SpecPush == Init /\ [][NextPush]_vars

\* ============================================================= properties
TerminalTexts == {"{\"status\":\"CLOSED\"}", "{\"status\":\"CLEARED\"}"}

MessageOps == {"metrics", "orderbooks", "market_status", "market_discovery"}

\* What the dashboard server sent to client c in its latest reaction step
NewFor(c) == SelectSeq(server.sent[c], LAMBDA e : e.seq > last.seq0)

\* The latest step of the dashboard server called broadcast
Broadcasted == last.op \in MessageOps /\ server.produced > last.seq0

\* The health record stored for node n holds exactly the fields of the
\* payload text, and a lastUpdate no earlier than t
HoldsHealth(store, n, text, t) ==
    /\ MapHas(store, n)
    /\ LET rec == MapGet(store, n)
           payload == JSONtable[text].obj
       IN  /\ DOMAIN rec = DOMAIN payload \cup {"lastUpdate"}
           /\ \A f \in DOMAIN payload : rec[f] = payload[f]
           /\ rec.lastUpdate >= t

\* C1: in the dashboard server and in the monitor, for every node N, whatever
\* other messages are interleaved, healthData[N] holds exactly the fields of
\* the latest health message for N that was JSON, and a lastUpdate that is
\* not earlier than the time that message was processed.
C1_LastHealthWins ==
    \A n \in Nodes :
        /\ heard["server"][n].count > 0 =>
              HoldsHealth(server.healthData, n, heard["server"][n].message,
                          heard["server"][n].at)
        /\ heard["monitor"][n].count > 0 =>
              HoldsHealth(monitor.healthData, n, heard["monitor"][n].message,
                          heard["monitor"][n].at)

\* Both processes have overwritten the health record of 10.0.0.1 with the
\* cpuUsage 90 message and then handled a message of another topic
C1_Witness ==
    /\ heard["server"]["10.0.0.1"].count >= 2
    /\ heard["monitor"]["10.0.0.1"].count >= 2
    /\ heard["server"]["10.0.0.1"].message = "{\"cpuUsage\":90,\"isHealthy\":false}"
    /\ heard["monitor"]["10.0.0.1"].message = "{\"cpuUsage\":90,\"isHealthy\":false}"
    /\ last.op \in MessageOps \ {"metrics"}
    /\ monLast.op \in MessageOps \ {"metrics"}
    /\ MapGet(server.healthData, "10.0.0.1").cpuUsage = Hundredths(90, 0)
    /\ MapGet(monitor.healthData, "10.0.0.1").cpuUsage = Hundredths(90, 0)

\* No node's order-book map of the store holds market M
Evicted(byNode, M) ==
    \A i \in 1..Len(byNode) : ~MapHas(byNode[i].v, M)

\* C2: in the state after a CLOSED or CLEARED status message for market M
\* has been processed, no node's order-book map contains M, in the dashboard
\* server and in the monitor.
C2_TerminalEvicts ==
    /\ last.op = "market_status" /\ last.message \in TerminalTexts
          => Evicted(server.orderbooksByNode, last.key)
    /\ monLast.op = "market_status" /\ monLast.message \in TerminalTexts
          => Evicted(monitor.orderbooksByNode, monLast.key)

\* A terminal status has removed the market from two nodes in both processes
C2_Witness ==
    /\ last.op = "market_status" /\ last.message \in TerminalTexts
    /\ Cardinality(last.evicted) = 2
    /\ monLast.op = "market_status" /\ monLast.message \in TerminalTexts
    /\ Cardinality(monLast.evicted) = 2

\* C3: a terminal status message for market M makes the dashboard server send
\* exactly one market_removed event, with eventId M and the status of the
\* message, to each attached open client whose channel works, however many
\* nodes held M, and nothing to any other client.
C3_OneMarketRemoved ==
    last.op = "market_status" /\ last.message \in TerminalTexts =>
        \A c \in Clients :
            IF c \in last.open
            THEN /\ Len(NewFor(c)) = 1
                 /\ NewFor(c)[1].event.type = "market_removed"
                 /\ NewFor(c)[1].event.eventId = last.key
                 /\ NewFor(c)[1].event.status =
                        JSONtable[last.message].obj.status
            ELSE NewFor(c) = << >>

\* A terminal status that evicted the market from two nodes was sent to an
\* attached open client
C3_Witness ==
    /\ last.op = "market_status" /\ last.message \in TerminalTexts
    /\ Cardinality(last.evicted) = 2
    /\ last.open # {}
    /\ \A c \in last.open : Len(NewFor(c)) = 1

\* C4: a status message that is not CLOSED or CLEARED removes no order-book
\* entry, leaves the order-book store as it was, and makes the dashboard
\* server produce no event, so no market_removed is sent.
C4_NonTerminalKeeps ==
    /\ last.op = "market_status" /\ last.message \notin TerminalTexts
          => /\ last.evicted = {}
             /\ "orderbooksByNode" \notin last.changed
             /\ server.produced = last.seq0
    /\ monLast.op = "market_status" /\ monLast.message \notin TerminalTexts
          => /\ monLast.evicted = {}
             /\ "orderbooksByNode" \notin monLast.changed

\* Both processes have handled status OPEN for E1 while holding an order
\* book for E1
C4_Witness ==
    /\ last.op = "market_status" /\ last.key = "E1"
    /\ last.message = "{\"status\":\"OPEN\"}"
    /\ <<"10.0.0.1", "E1">> \in ObKeys(server.orderbooksByNode)
    /\ monLast.op = "market_status" /\ monLast.key = "E1"
    /\ monLast.message = "{\"status\":\"OPEN\"}"
    /\ <<"10.0.0.1", "E1">> \in ObKeys(monitor.orderbooksByNode)

\* The events of a log whose type is ty
OfType(log, ty) == SelectSeq(log, LAMBDA e : e.event.type = ty)

\* In the log of client c no replay event comes after a live event
ReplayFirst(c) ==
    \A i, j \in 1..Len(server.sent[c]) :
        i < j => ~(server.sent[c][i].via = "broadcast"
                   /\ server.sent[c][j].via = "replay")

\* The number of health and order-book records in the dashboard server
RecordCount ==
    Len(server.healthData) + Cardinality(ObKeys(server.orderbooksByNode))

\* C5 (as stated): a client that attaches when the store holds K health and
\* order-book records, and whose channel works, is sent exactly K replay
\* events.
C5_Claim ==
    last.op = "connection" /\ last.key \in last.open =>
        Len(server.sent[last.key]) = RecordCount

\* C5 (amended): a client that attaches when the store holds K health and
\* order-book records, and whose channel works, is sent one health_update
\* per health record and one orderbook_update per order-book record, none
\* twice, and after them one market_discovery event when totalMarkets > 0
\* and no other event: K or K + 1 replay events.  In every client's log the
\* replay events come before every live event.
C5_ReplayOncePerRecord ==
    /\ \A c \in Clients : ReplayFirst(c)
    /\ last.op = "connection" /\ last.key \in last.open =>
          LET log == server.sent[last.key]
              health == OfType(log, "health_update")
              books == OfType(log, "orderbook_update")
              extra == IF IsPositive(server.totalMarkets) THEN 1 ELSE 0
          IN  /\ \A i \in 1..Len(log) : log[i].via = "replay"
              /\ Len(health) = Len(server.healthData)
              /\ {health[i].event.nodeId : i \in 1..Len(health)}
                    = MapKeys(server.healthData)
              /\ Len(books) = Cardinality(ObKeys(server.orderbooksByNode))
              /\ {<<books[i].event.nodeId, books[i].event.eventId>> :
                      i \in 1..Len(books)}
                    = ObKeys(server.orderbooksByNode)
              /\ Len(log) = RecordCount + extra
              /\ extra = 1 => log[Len(log)].event.type = "market_discovery"

\* A client with a working channel has attached to a store of one health
\* record, one order-book record and a positive totalMarkets
C5_Witness ==
    /\ last.op = "connection" /\ last.key \in last.open
    /\ Len(server.healthData) >= 1
    /\ Cardinality(ObKeys(server.orderbooksByNode)) >= 1
    /\ IsPositive(server.totalMarkets)
    /\ Len(server.sent[last.key]) = RecordCount + 1

\* C6 (as stated): when a handler ends in its error branch, every store
\* namespace is as it was before the message, exactly one error was logged
\* and nothing was broadcast, in the dashboard server and in the monitor.
C6_Claim ==
    /\ last.outcome = "error"
          => /\ last.changed = {}
             /\ last.errors = 1
             /\ server.produced = last.seq0
    /\ monLast.outcome = "error"
          => /\ monLast.changed = {}
             /\ monLast.errors = 1

\* The dashboard server without its handler-error lines on the console
Applied(S) ==
    [S EXCEPT !.console = SelectSeq(@, LAMBDA e : e \notin HandlerErrors)]

C8_BroadcastIsolatesFailures ==
    Broadcasted =>
        /\ last.outcome = "ok"
        /\ \A c \in last.open :
               Len(NewFor(c)) = 1 /\ NewFor(c)[1].via = "broadcast"

\* Two clients were attached; send raised on the first and the second was
\* sent the event
C8_Witness ==
    /\ Broadcasted
    /\ last.threw = {"ws1"} /\ last.open = {"ws2"}
    /\ Len(NewFor("ws2")) = 1
    /\ last.errors = 1

\* C9 (as stated): a client whose delivery fails during broadcast, because
\* its socket is not OPEN or because send raises, is no longer in the
\* clients set when broadcast has returned.
C9_Claim ==
    Broadcasted =>
        \A c \in last.attached \ last.open :
            c \notin SetMembers(server.clients)

\* C9 (amended): a client on which send raises during broadcast is no longer
\* in the clients set when broadcast has returned; every other attached
\* client, also one whose socket is not OPEN and is skipped, is still in the
\* clients set.
C9_ThrowingClientDetached ==
    Broadcasted =>
        /\ \A c \in last.threw : c \notin SetMembers(server.clients)
        /\ \A c \in last.attached \ last.threw :
               c \in SetMembers(server.clients)

\* A broadcast met one client on which send raised and one client that was
\* closing
C9_Witness ==
    /\ Broadcasted
    /\ last.threw # {}
    /\ \E c \in last.attached : readyState[c] = "CLOSING"

\* C10: each client is sent the events in the order the dashboard server
\* produced them, replayed and live alike: along its log the serial numbers
\* increase and the timestamps never decrease.
C10_PerClientOrder ==
    \A c \in Clients :
        \A i, j \in 1..Len(server.sent[c]) :
            i < j => /\ server.sent[c][i].seq < server.sent[c][j].seq
                     /\ server.sent[c][i].event.timestamp.iso
                           <= server.sent[c][j].event.timestamp.iso

\* A client was sent a replay event and then two live events
C10_Witness ==
    \E c \in Clients :
        /\ Len(server.sent[c]) >= 3
        /\ server.sent[c][1].via = "replay"
        /\ server.sent[c][Len(server.sent[c])].via = "broadcast"
        /\ server.sent[c][Len(server.sent[c]) - 1].via = "broadcast"

\* The clients that have been attached with a working channel ever since
\* they connected
Healthy == {c \in SetMembers(server.clients) :
               readyState[c] = "OPEN" /\ c \notin sendThrows}

\* The entries of client c's log that deliver the change made at time t to
\* the record the event type ty keeps under key: the live broadcast of that
\* change, or a replay of the record read at t or later
Carriers(c, ty, key, t) ==
    {j \in 1..Len(server.sent[c]) :
        LET e == server.sent[c][j] IN
        /\ e.event.type = ty
        /\ key = IF ty = "health_update" THEN <<e.event.nodeId>>
                 ELSE <<e.event.nodeId, e.event.eventId>>
        /\ \/ e.via = "broadcast" /\ e.event.timestamp.iso = t
           \/ e.via = "replay" /\ e.event.timestamp.iso >= t}

ReplayOf(c) == SelectSeq(server.sent[c], LAMBDA e : e.via = "replay")

\* C12: the replay to a client sends every health_update before any
\* orderbook_update, the orderbook_update events of one node next to each
\* other, and the market_discovery event, when there is one, last.
C12_ReplayOrder ==
    \A c \in Clients :
        LET r == ReplayOf(c) IN
        \A i, j \in 1..Len(r) :
            i < j =>
                /\ ~(r[i].event.type = "orderbook_update"
                     /\ r[j].event.type = "health_update")
                /\ r[i].event.type # "market_discovery"
                /\ (/\ r[i].event.type = "orderbook_update"
                    /\ r[j].event.type = "orderbook_update"
                    /\ r[i].event.nodeId = r[j].event.nodeId)
                   => \A k \in i..j :
                          /\ r[k].event.type = "orderbook_update"
                          /\ r[k].event.nodeId = r[i].event.nodeId

\* A client was replayed two order books of 10.0.0.1 and one of 10.0.0.2,
\* the second book of 10.0.0.1 having arrived last
C12_Witness ==
    \E c \in Clients :
        LET r == ReplayOf(c) IN
        /\ Len(r) = 3
        /\ \A i \in 1..3 : r[i].event.type = "orderbook_update"
        /\ r[1].event.nodeId = "10.0.0.1" /\ r[1].event.eventId = "E1"
        /\ r[2].event.nodeId = "10.0.0.1" /\ r[2].event.eventId = "E2"
        /\ r[3].event.nodeId = "10.0.0.2"
        /\ MapGet(MapGet(server.orderbooksByNode, "10.0.0.1"), "E2").lastUpdate
              > MapGet(MapGet(server.orderbooksByNode, "10.0.0.2"), "E1").lastUpdate

\* The health payloads of the health_update events sent on the path via
HealthPayloads(via) ==
    UNION {{server.sent[c][j].event.health :
               j \in {k \in 1..Len(server.sent[c]) :
                         /\ server.sent[c][k].via = via
                         /\ server.sent[c][k].event.type = "health_update"}} :
           c \in Clients}

\* C15 (as stated): the health payload of a health_update event has the same
\* field set whether the event is the live broadcast of a bus message or the
\* replay of the record cached from that message.
C15_Claim ==
    \A live \in HealthPayloads("broadcast"), cached \in HealthPayloads("replay") :
        DOMAIN live.obj = DOMAIN cached.obj

DemoNodes == {"100.70.127.124", "100.70.127.125", "192.168.1.100"}

DemoBooks == {<<"100.70.127.124", "DEMO_EVENT_001">>,
              <<"100.70.127.125", "DEMO_EVENT_002">>}

\* C14: when the upstream bus cannot be reached at startup the server runs
\* all the same: the store holds the demo health records, the demo order
\* books and totalMarkets, the periodic task is started, and an observer
\* that connects is attached and is replayed the seeded store.
C14_DegradedStartServes ==
    /\ last.op = "startDemo" =>
          /\ phase = "demo"
          /\ last.errors = 0
          /\ MapKeys(server.healthData) = DemoNodes
          /\ ObKeys(server.orderbooksByNode) = DemoBooks
          /\ server.totalMarkets = <<25>>
    /\ phase = "demo" =>
          /\ server.timers = 1
          /\ MapKeys(server.healthData) = DemoNodes
          /\ ObKeys(server.orderbooksByNode) = DemoBooks
          /\ server.totalMarkets = <<25>>
    /\ (phase = "demo" /\ last.op = "connection") =>
          /\ last.key \in SetMembers(server.clients)
          /\ last.key \notin sendThrows =>
                LET r == ReplayOf(last.key) IN
                /\ Len(OfType(r, "health_update")) = 3
                /\ Len(OfType(r, "orderbook_update")) = 2
                /\ Len(OfType(r, "market_discovery")) = 1

C14_Witness ==
    /\ phase = "demo"
    /\ ticks > 0
    /\ last.op = "connection"
    /\ last.key \in Healthy
    /\ Len(ReplayOf(last.key)) = 6

ShutdownPhases == {"quittingSubscriber", "quittingClient", "exited"}

\* C13: once stop() has begun, the server handles no further bus message
\* (it stops accepting them before anything else) and sends no event to an
\* observer, neither from a bus message nor from the periodic task.
C13_Claim ==
    (phase \in ShutdownPhases /\ last.op \in MessageOps \cup {"tick"}) =>
        /\ last.op \notin MessageOps
        /\ \A c \in Clients : NewFor(c) = << >>

InRange(x) == 0 <= x /\ x <= Hundredths(100, 0)

ChangedLevels(old, new) == {k \in 1..Len(old) : old[k] # new[k]}

\* One list of levels across a tick: at most one level differs, its price
\* moved by one and nothing else in it, and best is the price it now has
ShiftedByOne(old, new, oldBest, newBest) ==
    /\ Len(new) = Len(old)
    /\ Cardinality(ChangedLevels(old, new)) <= 1
    /\ \A k \in ChangedLevels(old, new) :
          /\ new[k].price - old[k].price \in {1, -1}
          /\ new[k] = [old[k] EXCEPT !.price = new[k].price]
          /\ newBest = new[k].price
    /\ ChangedLevels(old, new) = {} => newBest = oldBest

\* C17: across one degraded-mode tick, in the bids and in the asks of each
\* Side of each order book at most one price level changes, its price
\* changes by exactly +1 or -1, and bestBid / bestAsk is then the price of
\* the shifted level.
C17_TickShiftsOneLevel ==
    [][(last'.op = "tick" /\ last'.n # last.n) =>
          /\ BookIndex(server') = BookIndex(server)
          /\ \A ij \in BookIndex(server) :
                LET old == server.orderbooksByNode[ij[1]].v[ij[2]].v
                    new == server'.orderbooksByNode[ij[1]].v[ij[2]].v
                IN  /\ ShiftedByOne(old.marketA.bids, new.marketA.bids,
                                    old.marketA.bestBid, new.marketA.bestBid)
                    /\ ShiftedByOne(old.marketA.asks, new.marketA.asks,
                                    old.marketA.bestAsk, new.marketA.bestAsk)
                    /\ ShiftedByOne(old.marketB.bids, new.marketB.bids,
                                    old.marketB.bestBid, new.marketB.bestBid)
                    /\ ShiftedByOne(old.marketB.asks, new.marketB.asks,
                                    old.marketB.bestAsk, new.marketB.bestAsk)]_vars

C17_Witness ==
    /\ last.op = "tick"
    /\ "orderbooksByNode" \in last.changed
    /\ LET a == MapGet(MapGet(server.orderbooksByNode, "100.70.127.124"),
                       "DEMO_EVENT_001").marketA
       IN  /\ a.bids[1].price = 44 /\ a.bestBid = 44
           /\ a.asks[1].price = 48 /\ a.bestAsk = 48

\* The Side records in the store
StoredSides ==
    UNION {{server.orderbooksByNode[ij[1]].v[ij[2]].v.marketA,
            server.orderbooksByNode[ij[1]].v[ij[2]].v.marketB} :
           ij \in BookIndex(server)}

Prices(levels) == {levels[k].price : k \in 1..Len(levels)}

\* C18: in every reachable state, also after ticks, the bid levels of each
\* stored Side have pairwise distinct prices, and so have its ask levels.
C18_Claim ==
    \A side \in StoredSides :
        /\ Cardinality(Prices(side.bids)) = Len(side.bids)
        /\ Cardinality(Prices(side.asks)) = Len(side.asks)

\* C19: in every reachable state, also after ticks, bestBid of each stored
\* Side with bid levels is its highest bid price and bestAsk of each stored
\* Side with ask levels is its lowest ask price.
C19_Claim ==
    \A side \in StoredSides :
        /\ Len(side.bids) > 0 =>
              /\ side.bestBid \in Prices(side.bids)
              /\ \A p \in Prices(side.bids) : p <= side.bestBid
        /\ Len(side.asks) > 0 =>
              /\ side.bestAsk \in Prices(side.asks)
              /\ \A p \in Prices(side.asks) : p >= side.bestAsk

StatusTexts == {"{\"status\":\"OPEN\"}", "{\"status\":\"CLOSED\"}",
                "{\"status\":\"CLEARED\"}"}

\* The MarketStatus records of a process
StatusStore(P) ==
    IF "marketStatus" \in DOMAIN P THEN P.marketStatus ELSE EmptyMap

\* The step of process P was a well-formed status message only if P now
\* holds the MarketStatus record of its market with the status it carried
StatusRecorded(P, step) ==
    (step.op = "market_status" /\ step.message \in StatusTexts) =>
        /\ MapHas(StatusStore(P), step.key)
        /\ MapGet(StatusStore(P), step.key).status
              = JSONtable[step.message].obj.status

\* C20: every well-formed status message for a market, terminal or not,
\* creates or overwrites the MarketStatus record of that market with the
\* status of the message, in the dashboard server and in the monitor, and a
\* MarketStatus record is never removed.
C20_Claim ==
    /\ [](StatusRecorded(server, last) /\ StatusRecorded(monitor, monLast))
    /\ [][/\ MapKeys(StatusStore(server)) \subseteq MapKeys(StatusStore(server'))
          /\ MapKeys(StatusStore(monitor)) \subseteq MapKeys(StatusStore(monitor'))
         ]_vars

\* The order-book record a process holds under the key <<nodeId, eventId>>
BookAt(P, key) == MapGet(MapGet(P.orderbooksByNode, key[1]), key[2])

\* The step from P to Q leaves the health records alone and keeps, as it
\* is, every order book of a market other than eventId
OtherMarketsKept(P, Q, eventId) ==
    /\ Q.healthData = P.healthData
    /\ \A key \in ObKeys(P.orderbooksByNode) :
          key[2] # eventId =>
              /\ key \in ObKeys(Q.orderbooksByNode)
              /\ BookAt(Q, key) = BookAt(P, key)

\* C21: a status message for market M, terminal or not, leaves every health
\* record and every order book of another market unchanged, in the server
\* and in the monitor; and no step of either process removes a health
\* record.
C21_StatusFrame ==
    [][/\ (last'.n # last.n /\ last'.op = "market_status") =>
              OtherMarketsKept(server, server', last'.key)
       /\ (monLast'.n # monLast.n /\ monLast'.op = "market_status") =>
              OtherMarketsKept(monitor, monitor', monLast'.key)
       /\ MapKeys(server.healthData) \subseteq MapKeys(server'.healthData)
       /\ MapKeys(monitor.healthData) \subseteq MapKeys(monitor'.healthData)
      ]_vars

C21_Witness ==
    /\ last.op = "market_status" /\ last.evicted # {}
    /\ monLast.op = "market_status" /\ monLast.evicted # {}
    /\ <<"10.0.0.1", "E2">> \in ObKeys(server.orderbooksByNode)
    /\ <<"10.0.0.1", "E2">> \in ObKeys(monitor.orderbooksByNode)

\* The store of a process: its namespaces with all they hold
StoreOf(P) == [ns \in Namespaces \cap DOMAIN P |-> P[ns]]

\* The store without the lastUpdate stamps of the MarketStatus records
StoreLessStatusStamps(P) ==
    [ns \in Namespaces \cap DOMAIN P |->
        IF ns = "marketStatus"
        THEN [i \in 1..Len(P[ns]) |->
                 [k |-> P[ns][i].k,
                  v |-> [f \in DOMAIN P[ns][i].v \ {"lastUpdate"} |->
                            P[ns][i].v[f]]]]
        ELSE P[ns]]

\* The step t follows the step s and handles a terminal status message for
\* a market that P holds no order book of
AbsentTerminal(P, s, t) ==
    /\ t.n # s.n
    /\ t.op = "market_status" /\ t.message \in TerminalTexts
    /\ \A key \in ObKeys(P.orderbooksByNode) : key[2] # t.key

\* The step t repeats the message of the step s before it
Repeats(s, t) ==
    s.op = t.op /\ s.key = t.key /\ s.message = t.message

\* A terminal status for an absent market taking P to Q changes no order
\* book and is no error; view(P) = view(Q) when it repeats the step before
AbsentIsNoOp(P, Q, s, t, sameStore) ==
    AbsentTerminal(P, s, t) =>
        /\ Q.orderbooksByNode = P.orderbooksByNode
        /\ t.errors = 0 /\ t.outcome = "ok"
        /\ Repeats(s, t) => sameStore

\* C22 as stated: a terminal status message for a market no node holds an
\* order book of changes nothing in the order-book namespace, throws nothing
\* and logs no error, and when it repeats the message before it the store is
\* left exactly as it was.
C22_Claim ==
    [][/\ AbsentIsNoOp(server, server', last, last',
                       StoreOf(server') = StoreOf(server))
       /\ AbsentIsNoOp(monitor, monitor', monLast, monLast',
                       StoreOf(monitor') = StoreOf(monitor))
      ]_vars

\* C22 (amended): as above, but the repeated message leaves the store as it
\* was except for the lastUpdate stamp of the market's MarketStatus record,
\* which the monitor refreshes.
C22_AbsentTerminalIsNoOp ==
    [][/\ AbsentIsNoOp(server, server', last, last',
                       StoreLessStatusStamps(server')
                           = StoreLessStatusStamps(server))
       /\ AbsentIsNoOp(monitor, monitor', monLast, monLast',
                       StoreLessStatusStamps(monitor')
                           = StoreLessStatusStamps(monitor))
      ]_vars

C22_Witness ==
    /\ last.op = "market_status" /\ last.message \in TerminalTexts
    /\ monLast.op = "market_status" /\ monLast.message \in TerminalTexts
    /\ last.evicted = {} /\ monLast.evicted = {}
    /\ ObKeys(server.orderbooksByNode) = {<<"10.0.0.1", "E2">>}
    /\ ObKeys(monitor.orderbooksByNode) = {<<"10.0.0.1", "E2">>}
    /\ MapGet(monitor.marketStatus, "E1").lastUpdate = monLast.at
    /\ published = 3

\* The payload texts that carry the fields eventId, nodeId, marketA, marketB
DocumentedOrderbookTexts ==
    {text \in DOMAIN JSONtable :
        {"eventId", "nodeId", "marketA", "marketB"}
            \subseteq DOMAIN JSONtable[text].obj}

\* After the step of P the order book of the message is stored under its
\* <<nodeId, eventId>>, with the Sides of the message
OrderbookStored(P, step) ==
    (step.op = "orderbooks" /\ step.message \in DocumentedOrderbookTexts) =>
        LET data == JSONtable[step.message].obj
            key  == <<data.nodeId, data.eventId>>
        IN  /\ key \in ObKeys(P.orderbooksByNode)
            /\ BookAt(P, key).marketA = data.marketA
            /\ BookAt(P, key).marketB = data.marketB

\* C23: every orderbooks message whose payload has the shape
\* {eventId, nodeId, marketA, marketB} creates or overwrites the record
\* under (nodeId, eventId), in the server and in the monitor, and makes the
\* server produce one orderbook_update broadcast.
C23_Claim ==
    /\ OrderbookStored(server, last)
    /\ OrderbookStored(monitor, monLast)
    /\ (last.op = "orderbooks" /\ last.message \in DocumentedOrderbookTexts)
          => server.produced = last.seq0 + 1

\* The events of type ty among those sent to client c in the last step
NewOfType(c, ty) == OfType(NewFor(c), ty)

\* The fields of a health record that a health payload repeats
SameHealth(record, payload) ==
    \A f \in DOMAIN record \ {"lastUpdate"} :
        f \in DOMAIN payload.obj /\ payload.obj[f] = record[f]

\* C24: every change a message or a tick makes to the server's store is
\* followed in the same step by one event for the changed record to every
\* attached open observer: a health_update for each health record written,
\* an orderbook_update for each order book written, one market_removed for
\* an eviction and one market_discovery for a new totalMarkets.
C24_ChangeIsBroadcast ==
    last.op \in MessageOps \cup {"tick"} =>
        \A c \in last.open :
            /\ \A i \in 1..Len(server.healthData) :
                  LET node == server.healthData[i].k
                      record == server.healthData[i].v
                      reports == SelectSeq(NewOfType(c, "health_update"),
                                           LAMBDA e : e.event.nodeId = node)
                  IN  record.lastUpdate = last.at =>
                          /\ Len(reports) = 1
                          /\ SameHealth(record, reports[1].event.health)
            /\ \A key \in ObKeys(server.orderbooksByNode) :
                  LET reports == SelectSeq(NewOfType(c, "orderbook_update"),
                                     LAMBDA e : /\ e.event.nodeId = key[1]
                                                /\ e.event.eventId = key[2])
                  IN  BookAt(server, key).lastUpdate = last.at =>
                          /\ Len(reports) = 1
                          /\ reports[1].event.marketA = BookAt(server, key).marketA
                          /\ reports[1].event.marketB = BookAt(server, key).marketB
            /\ last.evicted # {} =>
                  /\ Len(NewOfType(c, "market_removed")) = 1
                  /\ NewOfType(c, "market_removed")[1].event.eventId = last.key
            /\ "totalMarkets" \in last.changed =>
                  /\ Len(NewOfType(c, "market_discovery")) = 1
                  /\ <<NewOfType(c, "market_discovery")[1].event.totalMarkets>>
                        = server.totalMarkets

C24_Witness ==
    /\ last.op = "tick"
    /\ "orderbooksByNode" \in last.changed
    /\ Cardinality(last.open) = 2
    /\ \A c \in last.open : Len(NewFor(c)) = 5

\* C25: when a send fails during the replay to a newly attached observer,
\* the observer is detached: it is no longer in the clients set after the
\* connection step, and no live broadcast is sent to it afterwards.
C25_Claim ==
    /\ (last.op = "connection" /\ last.errors > 0) =>
          last.key \notin SetMembers(server.clients)
    /\ \A c \in sendThrows :
          \A j \in 1..Len(server.sent[c]) : server.sent[c][j].via # "broadcast"

\* The server's reaction to the message of step, computed from the state S
Handled(S, step, rs, st) ==
    CASE step.op = "metrics" ->
            handleHealthUpdate(S, step.key, step.message, step.at, rs, st)
      [] step.op = "orderbooks" ->
            handleOrderbookUpdate(S, step.message, step.at, rs, st)
      [] step.op = "market_status" ->
            handleMarketStatusUpdate(S, step.key, step.message, step.at, rs, st)
      [] step.op = "market_discovery" ->
            handleMarketDiscovery(S, step.message, step.at, rs, st)

\* C26: observers never change the store.  A draw of the terminal display
\* leaves the monitor's store as it was, the order of the price levels
\* included; a replay to a connecting client leaves the server's store as it
\* was; and a message step leaves the server's store as the same message
\* would with no client attached.
C26_ObserversLeaveStore ==
    [][/\ (monLast'.n # monLast.n /\ monLast'.op \in {"display", "start"}) =>
              StoreOf(monitor') = StoreOf(monitor)
       /\ (last'.n # last.n /\ last'.op = "connection") =>
              StoreOf(server') = StoreOf(server)
       /\ (last'.n # last.n /\ last'.op \in MessageOps) =>
              StoreOf(server')
                 = StoreOf(Handled([server EXCEPT !.clients = << >>], last',
                                   readyState, sendThrows))
      ]_vars

C26_Witness ==
    /\ monLast.op = "display"
    /\ <<"10.0.0.2", "E2">> \in ObKeys(monitor.orderbooksByNode)
    /\ BookAt(monitor, <<"10.0.0.2", "E2">>).marketA.bids[1].price = 44
    /\ monitor.screen[1].orderbooks[1].markets[1].marketA.bids[1].price = 45
    /\ Len(monitor.healthData) = 2
    /\ monitor.healthData[1].k = "10.0.0.2"
    /\ monitor.screen[1].health[1].nodeId = "10.0.0.1"
    /\ last.op \in MessageOps /\ last.open # {} /\ \A c \in last.open : NewFor(c) # << >>

\* The market_discovery events in the replay to client c
DiscoveryReplay(c) == OfType(ReplayOf(c), "market_discovery")

\* C27: on a bus that carries discovery messages only, a client that
\* connects after a discovery message is replayed one market_discovery
\* event with the totalMarkets of the latest one, whatever its value (0
\* included); a client that connects before any discovery message is
\* replayed none.
C27_Claim ==
    (last.op = "connection" /\ last.key \in last.open) =>
        IF published > 0
        THEN /\ Len(DiscoveryReplay(last.key)) = 1
             /\ <<DiscoveryReplay(last.key)[1].event.totalMarkets>>
                   = server.totalMarkets
        ELSE DiscoveryReplay(last.key) = << >>

\* The view a client builds from the first i events of its log: the nodes it
\* has a health record of and the <<node, market>> pairs it has a book of
RECURSIVE ViewAfter(_, _)
ViewAfter(log, i) ==
    IF i = 0 THEN [health |-> {}, books |-> {}]
    ELSE LET view == ViewAfter(log, i - 1)
             e == log[i].event
         IN  CASE e.type = "health_update" ->
                     [view EXCEPT !.health = @ \cup {e.nodeId}]
               [] e.type = "orderbook_update" ->
                     [view EXCEPT !.books = @ \cup {<<e.nodeId, e.eventId>>}]
               [] e.type = "market_removed" ->
                     [view EXCEPT !.books = {k \in @ : k[2] # e.eventId}]
               [] OTHER -> view

ViewOf(c) == ViewAfter(server.sent[c], Len(server.sent[c]))

\* C28: after every step, the view of every client in the clients set has
\* the health keys and the order-book keys of the server's store.
C28_Claim ==
    \A c \in SetMembers(server.clients) :
        /\ ViewOf(c).health = MapKeys(server.healthData)
        /\ ViewOf(c).books = ObKeys(server.orderbooksByNode)

\* Process P holds no order book of market m
NoBookOf(P, m) == \A key \in ObKeys(P.orderbooksByNode) : key[2] # m

\* The step was a terminal status message for market m
TerminalFor(step, m) ==
    step.op = "market_status" /\ step.key = m /\ step.message \in TerminalTexts

\* C29: once a terminal status has been processed for a market, no later
\* state of the server's or of the monitor's store holds an order book of
\* that market, whatever arrives afterwards.
\* Stated for the step that follows the terminal status: a store whose last
\* handled message was a terminal status for m has no book of m after the
\* next step either.
C29_Claim ==
    [][\A m \in Markets :
          /\ TerminalFor(last, m) => NoBookOf(server, m)'
          /\ TerminalFor(monLast, m) => NoBookOf(monitor, m)']_vars

\* C30: degraded mode and the live feed exclude each other: in no state is
\* the demo timer running while a bus subscription of the server can still
\* deliver messages into the store.
C30_Claim ==
    ~(/\ server.timers > 0
      /\ server.redisSubscriberOpen
      /\ server.subscriptions # {})

\* Both processes were subscribed before the first publication and each
\* has handled every message published so far
SameFeed ==
    /\ server.redisSubscriberOpen
    /\ server.subscriptions = SubscribedAfter(4)
    /\ monitor.started
    /\ pending = {}
    /\ last.n = published + 1
    /\ monLast.n = published + 1

\* The fields of a stored record that came from the message
Payload(rec) == [f \in DOMAIN rec \ {"lastUpdate"} |-> rec[f]]

\* A discovery message has set totalMarkets in one of the two processes
DiscoverySeen ==
    monitor.totalMarkets # NewMonitor(0).totalMarkets
        \/ server.totalMarkets # NewServer.totalMarkets

\* C31: the monitor and the dashboard server aggregate alike: when both
\* have handled the same messages, their healthData have the same keys
\* and the same payload per key, their orderbooksByNode have the same
\* (node, market) keys, and their totalMarkets agree once a discovery
\* message has set it.
C31_SameAggregation ==
    SameFeed =>
        /\ MapKeys(server.healthData) = MapKeys(monitor.healthData)
        /\ \A n \in MapKeys(server.healthData) :
              Payload(MapGet(server.healthData, n))
                  = Payload(MapGet(monitor.healthData, n))
        /\ ObKeys(server.orderbooksByNode) = ObKeys(monitor.orderbooksByNode)
        /\ DiscoverySeen => server.totalMarkets = monitor.totalMarkets

\* Both have handled a health message, an order-book message and a
\* discovery message
C31_Witness ==
    /\ SameFeed
    /\ published = 3
    /\ MapKeys(monitor.healthData) # {}
    /\ ObKeys(monitor.orderbooksByNode) # {}
    /\ monitor.totalMarkets = <<7>>
    /\ server.totalMarkets = <<7>>

====
